---- MODULE Spec2Model ----
(***************************************************************************)
(* Turn-based board-game engine (Gomoku and a simplified Go) with a        *)
(* reversible history log.  The operations of src/core are modelled as     *)
(* operators over an engine record g; the actions apply them to the        *)
(* variables.  Every operator returns [g |-> engine after the call,        *)
(* err |-> "ok" or the kind of the exception the call raised].             *)
(***************************************************************************)
EXTENDS Integers, Sequences, FiniteSets, TLC

VARIABLES variant, size, grid, current_player, other_player, status,
          history, captured_black, captured_white, consecutive_passes,
          lastOp, steps, cells, frame

vars == <<variant, size, grid, current_player, other_player, status,
          history, captured_black, captured_white, consecutive_passes,
          lastOp, steps, cells, frame>>

\* Largest board of the Board-only specification.
MaxBoard == 2

\* Number of public operations explored after the opening of a scenario.
MaxSteps == 4

\* ------------------------------------------------------------------ board.py
EMPTY == "empty"

VALID_COLORS == {"black", "white"}

\* Board.iter_positions: all coordinates in row-major order.
iter_positions(n) == [k \in 1..(n * n) |-> <<(k - 1) \div n, (k - 1) % n>>]

Positions(n) == (0..(n - 1)) \X (0..(n - 1))

\* Board.__init__: a size x size grid of 'empty'.
Board(n) == [p \in Positions(n) |-> EMPTY]

\* Board._validate_position: TRUE when (row, col) is on the board.
validate_position(g, row, col) ==
    (0 <= row /\ row < g.size) /\ (0 <= col /\ col < g.size)

OK(g) == [g |-> g, err |-> "ok"]

Raise(g, kind) == [g |-> g, err |-> kind]

\* Board.get_piece: err is OutOfBounds off the board, else val is the cell.
get_piece(g, row, col) ==
    IF ~validate_position(g, row, col)
    THEN [err |-> "OutOfBounds", val |-> EMPTY]
    ELSE [err |-> "ok", val |-> g.grid[<<row, col>>]]

\* A plausible slip: a stone is placed without a look at what the cell holds.
place_piece_overwrites(g, row, col, color) ==
    IF ~validate_position(g, row, col) THEN Raise(g, "OutOfBounds")
    ELSE IF color \notin VALID_COLORS THEN Raise(g, "InvalidColor")
    ELSE OK([g EXCEPT !.grid[<<row, col>>] = color])

\* A plausible slip: the colour string is not validated.
place_piece_any_color(g, row, col, color) ==
    IF ~validate_position(g, row, col) THEN Raise(g, "OutOfBounds")
    ELSE IF g.grid[<<row, col>>] # EMPTY THEN Raise(g, "AlreadyOccupied")
    ELSE OK([g EXCEPT !.grid[<<row, col>>] = color])

\* Board.place_piece.
place_piece(g, row, col, color) ==
    IF ~validate_position(g, row, col) THEN Raise(g, "OutOfBounds")
    ELSE IF color \notin VALID_COLORS THEN Raise(g, "InvalidColor")
    ELSE IF g.grid[<<row, col>>] # EMPTY THEN Raise(g, "AlreadyOccupied")
    ELSE OK([g EXCEPT !.grid[<<row, col>>] = color])

\* Board.remove_piece.
remove_piece(g, row, col) ==
    IF ~validate_position(g, row, col) THEN Raise(g, "OutOfBounds")
    ELSE IF g.grid[<<row, col>>] = EMPTY THEN Raise(g, "NotOccupied")
    ELSE OK([g EXCEPT !.grid[<<row, col>>] = EMPTY])

\* ----------------------------------------------------------------- player.py
Player(name, color) == [name |-> name, color |-> color]

\* ------------------------------------------------------------------- game.py
\* GameFactory.create_game: the two default players.
black_player == Player("Black", "black")

white_player == Player("White", "white")

GameStatus == {"ONGOING", "BLACK_WIN", "WHITE_WIN", "DRAW"}

\* Game.__init__ (with GoGame.__init__ / GomokuGame.__init__): the engine
\* after construction.  The Go counters exist on a Go engine only; a Gomoku
\* engine carries them at 0 and never touches them.
NewGame(v, n) ==
    [variant |-> v, size |-> n, grid |-> Board(n),
     current_player |-> black_player, other_player |-> white_player,
     status |-> "ONGOING", history |-> <<>>,
     captured_black |-> 0, captured_white |-> 0, consecutive_passes |-> 0]

Push(h, e) == Append(h, e)

Top(h) == h[Len(h)]

Pop(h) == SubSeq(h, 1, Len(h) - 1)

\* GameStatus.BLACK_WIN if color == "black" else GameStatus.WHITE_WIN.
WinStatus(color) == IF color = "black" THEN "BLACK_WIN" ELSE "WHITE_WIN"

\* A plausible slip: a drawn game is not counted as over.
is_over_wins_only(g) == g.status \in {"BLACK_WIN", "WHITE_WIN"}

\* Game.is_over.
is_over(g) == g.status # "ONGOING"

\* Python's None, as returned by get_winner.
None == [name |-> "", color |-> "none"]

\* A plausible slip: whoever is not Black is taken to be the winner, without
\* a look at Ongoing or Draw.
get_winner_two_way(g) ==
    IF g.status = "BLACK_WIN" THEN black_player ELSE white_player

\* Game.get_winner.
get_winner(g) ==
    IF g.status = "BLACK_WIN" THEN black_player
    ELSE IF g.status = "WHITE_WIN" THEN white_player
    ELSE None

\* A plausible slip: only one of the two pointers is reassigned.
switch_turn_half(g) == [g EXCEPT !.current_player = g.other_player]

\* Game._switch_turn.
switch_turn(g) ==
    [g EXCEPT !.current_player = g.other_player,
              !.other_player = g.current_player]

\* Game._record_move.
record_move(g, row, col, prev_value) ==
    [g EXCEPT !.history = Push(g.history,
        [action |-> "move", row |-> row, col |-> col,
         prev_value |-> prev_value,
         previous_status |-> g.status,
         previous_current |-> g.current_player,
         previous_other |-> g.other_player])]

\* A plausible slip: the turn is swapped before the stone is placed, so a
\* refused placement leaves the turn with the other player.
apply_move_switch_before_place(g, row, col) ==
    LET prev == get_piece(g, row, col) IN
    IF prev.err # "ok" THEN Raise(g, prev.err)
    ELSE LET g1 == switch_turn(record_move(g, row, col, prev.val))
             pl == place_piece(g1, row, col, g1.other_player.color)
         IN IF pl.err # "ok" THEN Raise(pl.g, pl.err)
            ELSE OK(pl.g)

\* Game._apply_move: get_piece, _record_move, place_piece, _switch_turn, in
\* that order; an exception of place_piece leaves the recorded entry behind.
apply_move(g, row, col) ==
    LET prev == get_piece(g, row, col) IN
    IF prev.err # "ok" THEN Raise(g, prev.err)
    ELSE LET g1 == record_move(g, row, col, prev.val)
             pl == place_piece(g1, row, col, g1.current_player.color)
         IN IF pl.err # "ok" THEN Raise(pl.g, pl.err)
            ELSE OK(switch_turn(pl.g))

\* Game._apply_pass.
apply_pass(g) ==
    switch_turn([g EXCEPT !.history = Push(g.history,
        [action |-> "pass",
         previous_status |-> g.status,
         previous_current |-> g.current_player,
         previous_other |-> g.other_player])])

\* A plausible slip: the base class passes the turn like a variant that
\* supports passing.
base_pass_turn_applies(g) == OK(apply_pass(g))

\* Game.pass_turn: the base class does not support passing.
base_pass_turn(g) == Raise(g, "PassNotSupported")

\* A plausible slip: the resigning player is declared the winner.
resign_wrong_winner(g) ==
    LET g1 == [g EXCEPT !.history = Push(g.history,
                   [action |-> "resign",
                    previous_status |-> g.status,
                    previous_current |-> g.current_player,
                    previous_other |-> g.other_player])]
    IN OK([g1 EXCEPT !.status =
              IF g.current_player.color = "black"
              THEN "BLACK_WIN" ELSE "WHITE_WIN"])

\* A plausible slip: a finished game cannot be resigned.
resign_refused_when_over(g) ==
    IF is_over(g) THEN Raise(g, "GameOver")
    ELSE
      LET g1 == [g EXCEPT !.history = Push(g.history,
                     [action |-> "resign",
                      previous_status |-> g.status,
                      previous_current |-> g.current_player,
                      previous_other |-> g.other_player])]
      IN OK([g1 EXCEPT !.status =
                IF g.current_player.color = "black"
                THEN "WHITE_WIN" ELSE "BLACK_WIN"])

\* A plausible slip: the turn passes to the opponent on resignation, as it
\* does on a move or a pass.
resign_switches_turn(g) ==
    LET g1 == [g EXCEPT !.history = Push(g.history,
                   [action |-> "resign",
                    previous_status |-> g.status,
                    previous_current |-> g.current_player,
                    previous_other |-> g.other_player])]
    IN OK(switch_turn([g1 EXCEPT !.status =
                          IF g.current_player.color = "black"
                          THEN "WHITE_WIN" ELSE "BLACK_WIN"]))

\* Game.resign.
resign(g) ==
    LET g1 == [g EXCEPT !.history = Push(g.history,
                   [action |-> "resign",
                    previous_status |-> g.status,
                    previous_current |-> g.current_player,
                    previous_other |-> g.other_player])]
    IN OK([g1 EXCEPT !.status =
              IF g.current_player.color = "black"
              THEN "WHITE_WIN" ELSE "BLACK_WIN"])

\* A plausible slip: undo does not put the status back.
base_undo_keeps_status(g) ==
    IF g.history = <<>> THEN Raise(g, "NothingToUndo")
    ELSE LET entry == Top(g.history)
             g1 == [g EXCEPT !.history = Pop(g.history),
                             !.current_player = entry.previous_current,
                             !.other_player = entry.previous_other]
         IN IF entry.action = "move"
            THEN OK([g1 EXCEPT !.grid[<<entry.row, entry.col>>] =
                                   entry.prev_value])
            ELSE OK(g1)

\* A plausible slip: undo on an empty history returns quietly instead of
\* raising.
base_undo_silent(g) ==
    IF g.history = <<>> THEN OK(g)
    ELSE LET entry == Top(g.history)
             g1 == [g EXCEPT !.history = Pop(g.history),
                             !.current_player = entry.previous_current,
                             !.other_player = entry.previous_other,
                             !.status = entry.previous_status]
         IN IF entry.action = "move"
            THEN OK([g1 EXCEPT !.grid[<<entry.row, entry.col>>] =
                                   entry.prev_value])
            ELSE OK(g1)

\* Game.undo (used by Gomoku).
base_undo(g) ==
    IF g.history = <<>> THEN Raise(g, "NothingToUndo")
    ELSE LET entry == Top(g.history)
             g1 == [g EXCEPT !.history = Pop(g.history),
                             !.current_player = entry.previous_current,
                             !.other_player = entry.previous_other,
                             !.status = entry.previous_status]
         IN IF entry.action = "move"
            THEN OK([g1 EXCEPT !.grid[<<entry.row, entry.col>>] =
                                   entry.prev_value])
            ELSE OK(g1)

\* --------------------------------------------------------------------- go.py
\* GoGame._neighbors: the on-board orthogonal neighbours, in scan order
\* up, down, left, right.
neighbors(n, row, col) ==
    LET cand == << <<row - 1, col>>, <<row + 1, col>>,
                   <<row, col - 1>>, <<row, col + 1>> >>
        OnBoard(p) == 0 <= p[1] /\ p[1] < n /\ 0 <= p[2] /\ p[2] < n
    IN SelectSeq(cand, OnBoard)

\* The while loop of GoGame._find_chain: pop, skip visited, push the
\* same-coloured unvisited neighbours.
RECURSIVE find_chain_loop(_, _, _, _, _)
find_chain_loop(gr, n, color, stack, visited) ==
    IF stack = <<>> THEN visited
    ELSE LET p == stack[Len(stack)]
             rest == SubSeq(stack, 1, Len(stack) - 1)
         IN IF p \in visited
            THEN find_chain_loop(gr, n, color, rest, visited)
            ELSE LET v2 == visited \cup {p}
                     Same(q) == gr[q] = color /\ q \notin v2
                 IN find_chain_loop(gr, n, color,
                        rest \o SelectSeq(neighbors(n, p[1], p[2]), Same), v2)

\* A plausible slip: the chain of a stone is taken to be the stone alone.
find_chain_single_stone(g, row, col) ==
    IF g.grid[<<row, col>>] = EMPTY THEN {} ELSE {<<row, col>>}

\* GoGame._find_chain.
find_chain(g, row, col) ==
    IF g.grid[<<row, col>>] = EMPTY THEN {}
    ELSE find_chain_loop(g.grid, g.size, g.grid[<<row, col>>],
                         << <<row, col>> >>, {})

\* GoGame._chain_has_liberties.
chain_has_liberties(g, chain) ==
    \E p \in chain :
        LET nb == neighbors(g.size, p[1], p[2])
        IN \E i \in 1..Len(nb) : g.grid[nb[i]] = EMPTY

\* The members of a chain in the order the capture loop visits them.  The
\* code iterates a Python set; the order only fixes the order of the
\* captured list, whose positions are pairwise distinct.
chain_order(g, chain) ==
    LET InChain(p) == p \in chain
    IN SelectSeq(iter_positions(g.size), InChain)

\* Removal of one chain inside GoGame.make_move: every member is emptied.
remove_chain(gr, chain) ==
    [p \in DOMAIN gr |-> IF p \in chain THEN EMPTY ELSE gr[p]]

\* A plausible slip: the stones are credited to the side that lost them.
credit_capture_swapped(g, opponent_color, n) ==
    IF opponent_color = "black"
    THEN [g EXCEPT !.captured_black = g.captured_black + n]
    ELSE [g EXCEPT !.captured_white = g.captured_white + n]

\* The counter update of the capture loop: n stones of opponent_color are
\* credited to the mover.
credit_capture(g, opponent_color, n) ==
    IF opponent_color = "black"
    THEN [g EXCEPT !.captured_white = g.captured_white + n]
    ELSE [g EXCEPT !.captured_black = g.captured_black + n]

\* A plausible slip: the dead chains are collected and credited neighbour by
\* neighbour and taken off the board only after the loop, with no look at
\* the chains already collected.
RECURSIVE capture_loop_deferred(_, _, _, _)
capture_loop_deferred(st, nb, i, opponent_color) ==
    IF i > Len(nb)
    THEN [st EXCEPT !.g.grid = remove_chain(st.g.grid, st.processed)]
    ELSE
      LET g == st.g
          q == nb[i]
      IN IF g.grid[q] # opponent_color
         THEN capture_loop_deferred(st, nb, i + 1, opponent_color)
         ELSE
           LET chain == find_chain(g, q[1], q[2])
           IN IF chain_has_liberties(g, chain)
              THEN capture_loop_deferred(st, nb, i + 1, opponent_color)
              ELSE
                LET ord == chain_order(g, chain)
                    caps == [k \in 1..Len(ord) |->
                               <<ord[k][1], ord[k][2], opponent_color>>]
                    g2 == credit_capture(g, opponent_color,
                                         Cardinality(chain))
                IN capture_loop_deferred([g |-> g2,
                                 captured |-> st.captured \o caps,
                                 processed |-> st.processed \cup chain],
                                nb, i + 1, opponent_color)

\* A plausible slip: the loop over the neighbours stops at the first chain
\* it captures.
RECURSIVE capture_loop_first_only(_, _, _, _)
capture_loop_first_only(st, nb, i, opponent_color) ==
    IF i > Len(nb) THEN st
    ELSE
      LET g == st.g
          q == nb[i]
      IN IF g.grid[q] # opponent_color
         THEN capture_loop_first_only(st, nb, i + 1, opponent_color)
         ELSE
           LET chain == find_chain(g, q[1], q[2])
           IN IF chain_has_liberties(g, chain)
                 \/ (chain \cap st.processed # {})
              THEN capture_loop_first_only(st, nb, i + 1, opponent_color)
              ELSE
                LET ord == chain_order(g, chain)
                    caps == [k \in 1..Len(ord) |->
                               <<ord[k][1], ord[k][2], opponent_color>>]
                    g1 == [g EXCEPT !.grid = remove_chain(g.grid, chain)]
                    g2 == credit_capture(g1, opponent_color,
                                         Cardinality(chain))
                IN [g |-> g2,
                    captured |-> st.captured \o caps,
                    processed |-> st.processed \cup chain]

\* The capture loop of GoGame.make_move over the neighbours nb[i..]:
\* st = [g, captured, processed].
RECURSIVE capture_loop(_, _, _, _)
capture_loop(st, nb, i, opponent_color) ==
    IF i > Len(nb) THEN st
    ELSE
      LET g == st.g
          q == nb[i]
      IN IF g.grid[q] # opponent_color
         THEN capture_loop(st, nb, i + 1, opponent_color)
         ELSE
           LET chain == find_chain(g, q[1], q[2])
           IN IF chain_has_liberties(g, chain)
                 \/ (chain \cap st.processed # {})
              THEN capture_loop(st, nb, i + 1, opponent_color)
              ELSE
                LET ord == chain_order(g, chain)
                    caps == [k \in 1..Len(ord) |->
                               <<ord[k][1], ord[k][2], opponent_color>>]
                    g1 == [g EXCEPT !.grid = remove_chain(g.grid, chain)]
                    g2 == credit_capture(g1, opponent_color,
                                         Cardinality(chain))
                IN capture_loop([g |-> g2,
                                 captured |-> st.captured \o caps,
                                 processed |-> st.processed \cup chain],
                                nb, i + 1, opponent_color)

\* A plausible slip: equal totals are given to White instead of a draw.
end_game_by_counts_no_draw(g) ==
    LET black_total == Cardinality({p \in DOMAIN g.grid : g.grid[p] = "black"})
                         + g.captured_black
        white_total == Cardinality({p \in DOMAIN g.grid : g.grid[p] = "white"})
                         + g.captured_white
    IN [g EXCEPT !.status =
           IF black_total > white_total THEN "BLACK_WIN" ELSE "WHITE_WIN"]

\* GoGame._end_game_by_counts.
end_game_by_counts(g) ==
    LET black_on_board == Cardinality({p \in DOMAIN g.grid : g.grid[p] = "black"})
        white_on_board == Cardinality({p \in DOMAIN g.grid : g.grid[p] = "white"})
        black_total == black_on_board + g.captured_black
        white_total == white_on_board + g.captured_white
    IN [g EXCEPT !.status =
           IF black_total > white_total THEN "BLACK_WIN"
           ELSE IF white_total > black_total THEN "WHITE_WIN"
           ELSE "DRAW"]

\* A plausible slip: undo forgets the captured stones.
restore_captured_none(gr, captured, i) == gr

\* Restoration of the captured stones in GoGame.undo.
RECURSIVE restore_captured(_, _, _)
restore_captured(gr, captured, i) ==
    IF i > Len(captured) THEN gr
    ELSE restore_captured(
           [gr EXCEPT ![<<captured[i][1], captured[i][2]>>] = captured[i][3]],
           captured, i + 1)

\* A plausible slip: undo reads the last entry without popping it.
go_undo_no_pop(g) ==
    IF g.history = <<>> THEN Raise(g, "NothingToUndo")
    ELSE LET entry == Top(g.history)
             g1 == [g EXCEPT !.current_player = entry.previous_current,
                             !.other_player = entry.previous_other,
                             !.status = entry.previous_status]
         IN IF entry.action = "move"
            THEN LET gr1 == [g1.grid EXCEPT ![<<entry.row, entry.col>>] =
                                entry.prev_value]
                 IN OK([g1 EXCEPT
                          !.grid = restore_captured(gr1, entry.captured, 1),
                          !.captured_black = entry.prev_captured_black,
                          !.captured_white = entry.prev_captured_white,
                          !.consecutive_passes = entry.prev_consecutive_passes])
            ELSE IF entry.action = "pass"
            THEN OK([g1 EXCEPT !.consecutive_passes =
                                   entry.prev_consecutive_passes])
            ELSE OK(g1)

\* A plausible slip: undoing a pass leaves the pass counter where it is.
go_undo_pass_keeps_counter(g) ==
    IF g.history = <<>> THEN Raise(g, "NothingToUndo")
    ELSE LET entry == Top(g.history)
             g1 == [g EXCEPT !.history = Pop(g.history),
                             !.current_player = entry.previous_current,
                             !.other_player = entry.previous_other,
                             !.status = entry.previous_status]
         IN IF entry.action = "move"
            THEN LET gr1 == [g1.grid EXCEPT ![<<entry.row, entry.col>>] =
                                entry.prev_value]
                 IN OK([g1 EXCEPT
                          !.grid = restore_captured(gr1, entry.captured, 1),
                          !.captured_black = entry.prev_captured_black,
                          !.captured_white = entry.prev_captured_white,
                          !.consecutive_passes = entry.prev_consecutive_passes])
            ELSE OK(g1)

\* A plausible slip: undoing a move restores the board but not the two
\* captured counters.
go_undo_keeps_counters(g) ==
    IF g.history = <<>> THEN Raise(g, "NothingToUndo")
    ELSE LET entry == Top(g.history)
             g1 == [g EXCEPT !.history = Pop(g.history),
                             !.current_player = entry.previous_current,
                             !.other_player = entry.previous_other,
                             !.status = entry.previous_status]
         IN IF entry.action = "move"
            THEN LET gr1 == [g1.grid EXCEPT ![<<entry.row, entry.col>>] =
                                entry.prev_value]
                 IN OK([g1 EXCEPT
                          !.grid = restore_captured(gr1, entry.captured, 1),
                          !.consecutive_passes = entry.prev_consecutive_passes])
            ELSE IF entry.action = "pass"
            THEN OK([g1 EXCEPT !.consecutive_passes =
                                   entry.prev_consecutive_passes])
            ELSE OK(g1)

\* GoGame.undo.
go_undo(g) ==
    IF g.history = <<>> THEN Raise(g, "NothingToUndo")
    ELSE LET entry == Top(g.history)
             g1 == [g EXCEPT !.history = Pop(g.history),
                             !.current_player = entry.previous_current,
                             !.other_player = entry.previous_other,
                             !.status = entry.previous_status]
         IN IF entry.action = "move"
            THEN LET gr1 == [g1.grid EXCEPT ![<<entry.row, entry.col>>] =
                                entry.prev_value]
                 IN OK([g1 EXCEPT
                          !.grid = restore_captured(gr1, entry.captured, 1),
                          !.captured_black = entry.prev_captured_black,
                          !.captured_white = entry.prev_captured_white,
                          !.consecutive_passes = entry.prev_consecutive_passes])
            ELSE IF entry.action = "pass"
            THEN OK([g1 EXCEPT !.consecutive_passes =
                                   entry.prev_consecutive_passes])
            ELSE OK(g1)

\* The history entry of a Go move once make_move has added its four keys.
go_move_entry(e, captured, pcb, pcw, pcp) ==
    [action |-> e.action, row |-> e.row, col |-> e.col,
     prev_value |-> e.prev_value,
     previous_status |-> e.previous_status,
     previous_current |-> e.previous_current,
     previous_other |-> e.previous_other,
     captured |-> captured,
     prev_captured_black |-> pcb,
     prev_captured_white |-> pcw,
     prev_consecutive_passes |-> pcp]

\* The capture step of GoGame.make_move, on the engine am as _apply_move
\* left it: the opponent chains next to (row, col) that have no liberty.
go_capture(am, row, col) ==
    capture_loop([g |-> am, captured |-> <<>>, processed |-> {}],
                 neighbors(am.size, row, col), 1, am.current_player.color)

\* A plausible slip: a move does not reset the pass counter.
go_amend_entry_keeps_passes(cap, g) ==
    [cap.g EXCEPT
       !.history = Push(Pop(cap.g.history),
           go_move_entry(Top(cap.g.history), cap.captured,
                         g.captured_black, g.captured_white,
                         g.consecutive_passes))]

\* GoGame.make_move after the captures: the pushed entry receives the
\* captured stones and the counters of g, the engine before the move, and
\* the pass counter is reset.
go_amend_entry(cap, g) ==
    [cap.g EXCEPT
       !.history = Push(Pop(cap.g.history),
           go_move_entry(Top(cap.g.history), cap.captured,
                         g.captured_black, g.captured_white,
                         g.consecutive_passes)),
       !.consecutive_passes = 0]

\* A plausible slip: the suicide is reported without undoing the move.
go_reject_suicide_no_undo(g2) == Raise(g2, "SuicideNotAllowed")

\* The suicide branch of GoGame.make_move: undo the move, then raise.
go_reject_suicide(g2) == Raise(go_undo(g2).g, "SuicideNotAllowed")

\* The board-full test at the end of both make_move methods.
board_full(g) == \A p \in DOMAIN g.grid : g.grid[p] # EMPTY

\* A plausible slip: the liberties of the placed stone are tested on the
\* board as it is before the captures.
go_make_move_liberties_first(g, row, col) ==
    IF is_over(g) THEN Raise(g, "GameOver")
    ELSE IF get_piece(g, row, col).err # "ok"
    THEN Raise(g, get_piece(g, row, col).err)
    ELSE IF get_piece(g, row, col).val # EMPTY THEN Raise(g, "AlreadyOccupied")
    ELSE
      LET am == apply_move(g, row, col)
      IN IF am.err # "ok" THEN am
         ELSE
           LET cap == go_capture(am.g, row, col)
               g2 == go_amend_entry(cap, g)
               mover_chain == find_chain(am.g, row, col)
           IN IF ~chain_has_liberties(am.g, mover_chain)
              THEN go_reject_suicide(g2)
              ELSE IF board_full(g2)
              THEN OK(end_game_by_counts(g2))
              ELSE OK(g2)

\* A plausible slip: the occupied cell is left for the shared move helper to
\* find.
go_make_move_no_precheck(g, row, col) ==
    IF is_over(g) THEN Raise(g, "GameOver")
    ELSE
      LET am == apply_move(g, row, col)
      IN IF am.err # "ok" THEN am
         ELSE
           LET cap == go_capture(am.g, row, col)
               g2 == go_amend_entry(cap, g)
               mover_chain == find_chain(g2, row, col)
           IN IF ~chain_has_liberties(g2, mover_chain) /\ cap.captured = <<>>
              THEN go_reject_suicide(g2)
              ELSE IF board_full(g2)
              THEN OK(end_game_by_counts(g2))
              ELSE OK(g2)

\* A plausible slip: a stone is left on the board whether or not its chain
\* has a liberty.
go_make_move_keeps_suicide(g, row, col) ==
    IF is_over(g) THEN Raise(g, "GameOver")
    ELSE IF get_piece(g, row, col).err # "ok"
    THEN Raise(g, get_piece(g, row, col).err)
    ELSE IF get_piece(g, row, col).val # EMPTY THEN Raise(g, "AlreadyOccupied")
    ELSE
      LET am == apply_move(g, row, col)
      IN IF am.err # "ok" THEN am
         ELSE
           LET cap == go_capture(am.g, row, col)
               g2 == go_amend_entry(cap, g)
           IN IF board_full(g2)
              THEN OK(end_game_by_counts(g2))
              ELSE OK(g2)

\* A plausible slip: the test on the captured list is inverted, so a stone
\* without liberty is taken back only when the move captured something.
go_make_move_suicide_test_inverted(g, row, col) ==
    IF is_over(g) THEN Raise(g, "GameOver")
    ELSE IF get_piece(g, row, col).err # "ok"
    THEN Raise(g, get_piece(g, row, col).err)
    ELSE IF get_piece(g, row, col).val # EMPTY THEN Raise(g, "AlreadyOccupied")
    ELSE
      LET am == apply_move(g, row, col)
      IN IF am.err # "ok" THEN am
         ELSE
           LET cap == go_capture(am.g, row, col)
               g2 == go_amend_entry(cap, g)
               mover_chain == find_chain(g2, row, col)
           IN IF ~chain_has_liberties(g2, mover_chain) /\ cap.captured # <<>>
              THEN go_reject_suicide(g2)
              ELSE IF board_full(g2)
              THEN OK(end_game_by_counts(g2))
              ELSE OK(g2)

\* GoGame.make_move.
go_make_move(g, row, col) ==
    IF is_over(g) THEN Raise(g, "GameOver")
    ELSE IF get_piece(g, row, col).err # "ok"
    THEN Raise(g, get_piece(g, row, col).err)
    ELSE IF get_piece(g, row, col).val # EMPTY THEN Raise(g, "AlreadyOccupied")
    ELSE
      LET am == apply_move(g, row, col)
      IN IF am.err # "ok" THEN am
         ELSE
           LET cap == go_capture(am.g, row, col)
               g2 == go_amend_entry(cap, g)
               mover_chain == find_chain(g2, row, col)
           IN IF ~chain_has_liberties(g2, mover_chain) /\ cap.captured = <<>>
              THEN go_reject_suicide(g2)
              ELSE IF board_full(g2)
              THEN OK(end_game_by_counts(g2))
              ELSE OK(g2)

\* A plausible slip: the second pass in a row is counted but does not end
\* the game.
go_pass_turn_never_ends(g) ==
    IF is_over(g) THEN Raise(g, "GameOver")
    ELSE
      LET g1 == apply_pass(g)
          e == Top(g1.history)
      IN OK([g1 EXCEPT
                !.consecutive_passes = g.consecutive_passes + 1,
                !.history = Push(Pop(g1.history),
                    [action |-> e.action,
                     previous_status |-> e.previous_status,
                     previous_current |-> e.previous_current,
                     previous_other |-> e.previous_other,
                     prev_consecutive_passes |-> g.consecutive_passes])])

\* GoGame.pass_turn.
go_pass_turn(g) ==
    IF is_over(g) THEN Raise(g, "GameOver")
    ELSE
      LET g1 == apply_pass(g)
          e == Top(g1.history)
          g2 == [g1 EXCEPT
                   !.consecutive_passes = g.consecutive_passes + 1,
                   !.history = Push(Pop(g1.history),
                       [action |-> e.action,
                        previous_status |-> e.previous_status,
                        previous_current |-> e.previous_current,
                        previous_other |-> e.previous_other,
                        prev_consecutive_passes |-> g.consecutive_passes])]
      IN IF g2.consecutive_passes >= 2
         THEN OK(end_game_by_counts(g2))
         ELSE OK(g2)

\* ----------------------------------------------------------------- gomoku.py
\* count_in_dir inside GomokuGame._has_five_in_a_row, from cell (r, c).
RECURSIVE count_from(_, _, _, _, _, _)
count_from(g, r, c, dr, dc, color) ==
    IF validate_position(g, r, c) /\ g.grid[<<r, c>>] = color
    THEN 1 + count_from(g, r + dr, c + dc, dr, dc, color)
    ELSE 0

count_in_dir(g, row, col, dr, dc, color) ==
    count_from(g, row + dr, col + dc, dr, dc, color)

\* A plausible slip: one diagonal is left out.
directions_without_anti == << <<0, 1>>, <<1, 0>>, <<1, 1>> >>

\* The four axes scanned by _has_five_in_a_row.
directions == << <<0, 1>>, <<1, 0>>, <<1, 1>>, <<1, -1>> >>

\* Length of the run that wins.
FIVE == 5

\* A plausible slip: only a run of exactly five wins.
has_five_in_a_row_exactly(g, row, col, color) ==
    \E i \in 1..Len(directions) :
        LET dr == directions[i][1]
            dc == directions[i][2]
            total == 1 + count_in_dir(g, row, col, dr, dc, color)
                       + count_in_dir(g, row, col, -dr, -dc, color)
        IN total = FIVE

\* GomokuGame._has_five_in_a_row.
has_five_in_a_row(g, row, col, color) ==
    \E i \in 1..Len(directions) :
        LET dr == directions[i][1]
            dc == directions[i][2]
            total == 1 + count_in_dir(g, row, col, dr, dc, color)
                       + count_in_dir(g, row, col, -dr, -dc, color)
        IN total >= FIVE

\* A plausible slip: the full board is not recognised as a draw.
gomoku_make_move_no_draw(g, row, col) ==
    IF is_over(g) THEN Raise(g, "GameOver")
    ELSE
      LET am == apply_move(g, row, col)
      IN IF am.err # "ok" THEN am
         ELSE IF has_five_in_a_row(am.g, row, col, am.g.other_player.color)
         THEN OK([am.g EXCEPT !.status = WinStatus(am.g.other_player.color)])
         ELSE OK(am.g)

\* A plausible slip: the status is recomputed on every move, whether or not
\* the game is already finished.
gomoku_make_move_rescores(g, row, col) ==
    LET am == apply_move(g, row, col)
    IN IF am.err # "ok" THEN am
       ELSE
         LET mover_color == am.g.other_player.color
         IN IF has_five_in_a_row(am.g, row, col, mover_color)
            THEN OK([am.g EXCEPT !.status = WinStatus(mover_color)])
            ELSE IF board_full(am.g)
            THEN OK([am.g EXCEPT !.status = "DRAW"])
            ELSE OK([am.g EXCEPT !.status = "ONGOING"])

\* A plausible slip: after the swap of the turn the run is looked for in the
\* colour of the player now to move.
gomoku_make_move_checks_next_player(g, row, col) ==
    IF is_over(g) THEN Raise(g, "GameOver")
    ELSE
      LET am == apply_move(g, row, col)
      IN IF am.err # "ok" THEN am
         ELSE
           LET mover_color == am.g.current_player.color
           IN IF has_five_in_a_row(am.g, row, col, mover_color)
              THEN OK([am.g EXCEPT !.status = WinStatus(mover_color)])
              ELSE IF board_full(am.g)
              THEN OK([am.g EXCEPT !.status = "DRAW"])
              ELSE OK(am.g)

\* A plausible slip: the move is applied without asking whether the game is
\* over.
gomoku_make_move_plays_on(g, row, col) ==
    LET am == apply_move(g, row, col)
    IN IF am.err # "ok" THEN am
       ELSE
         LET mover_color == am.g.other_player.color
         IN IF has_five_in_a_row(am.g, row, col, mover_color)
            THEN OK([am.g EXCEPT !.status = WinStatus(mover_color)])
            ELSE IF board_full(am.g)
            THEN OK([am.g EXCEPT !.status = "DRAW"])
            ELSE OK(am.g)

\* GomokuGame.make_move.
gomoku_make_move(g, row, col) ==
    IF is_over(g) THEN Raise(g, "GameOver")
    ELSE
      LET am == apply_move(g, row, col)
      IN IF am.err # "ok" THEN am
         ELSE
           LET mover_color == am.g.other_player.color
           IN IF has_five_in_a_row(am.g, row, col, mover_color)
              THEN OK([am.g EXCEPT !.status = WinStatus(mover_color)])
              ELSE IF board_full(am.g)
              THEN OK([am.g EXCEPT !.status = "DRAW"])
              ELSE OK(am.g)

\* ---------------------------------------------------------------- factory.py
\* A variant name as the caller types it: a str, modelled as the sequence of
\* its characters.
UPPER == <<"G", "O", "M", "K", "U", "C", "H", "E", "S">>

LOWER == <<"g", "o", "m", "k", "u", "c", "h", "e", "s">>

\* A plausible slip: the name is looked up as typed, case included.
str_lower_as_typed(s) == s

\* str.lower: every cased character is replaced by its lower-case form.
str_lower(s) ==
    [i \in 1..Len(s) |->
        IF \E k \in 1..Len(UPPER) : UPPER[k] = s[i]
        THEN LOWER[CHOOSE k \in 1..Len(UPPER) : UPPER[k] = s[i]]
        ELSE s[i]]

\* The characters str.strip removes.
WHITESPACE == {" ", "\t", "\n"}

\* str.strip: leading and trailing whitespace is removed.
str_strip(s) ==
    LET kept == {i \in 1..Len(s) : s[i] \notin WHITESPACE}
    IN IF kept = {} THEN <<>>
       ELSE SubSeq(s, CHOOSE i \in kept : \A j \in kept : i <= j,
                      CHOOSE i \in kept : \A j \in kept : j <= i)

\* GameFactory._registry: normalised name -> game class.
registry ==
    [k \in {<<"g", "o", "m", "o", "k", "u">>, <<"g", "o">>} |->
        IF k = <<"g", "o">> THEN "go" ELSE "gomoku"]

\* What a caller holds when the construction raised: no engine.
NoGame ==
    [variant |-> "none", size |-> 0, grid |-> <<>>,
     current_player |-> None, other_player |-> None,
     status |-> "ONGOING", history |-> <<>>,
     captured_black |-> 0, captured_white |-> 0, consecutive_passes |-> 0]

\* GameFactory.create_game from the name as typed: strip, lower, look the
\* class up, then construct (Board.__init__ and GomokuGame.__init__ refuse a
\* size that is not positive).
factory_create_game(game_type, n) ==
    LET normalized == str_lower(str_strip(game_type))
    IN IF normalized \notin DOMAIN registry
       THEN Raise(NoGame, "UnknownVariant")
       ELSE IF n <= 0 THEN Raise(NoGame, "InvalidConstructionArgument")
       ELSE OK(NewGame(registry[normalized], n))

\* ----------------------------------------------------- dispatch by variant
make_move(g, row, col) ==
    IF g.variant = "go" THEN go_make_move(g, row, col)
    ELSE gomoku_make_move(g, row, col)

pass_turn(g) ==
    IF g.variant = "go" THEN go_pass_turn(g) ELSE base_pass_turn(g)

undo(g) ==
    IF g.variant = "go" THEN go_undo(g) ELSE base_undo(g)

\* ------------------------------------------------------------ the state machine
\* The engine as one record.
Self ==
    [variant |-> variant, size |-> size, grid |-> grid,
     current_player |-> current_player, other_player |-> other_player,
     status |-> status, history |-> history,
     captured_black |-> captured_black, captured_white |-> captured_white,
     consecutive_passes |-> consecutive_passes]

\* One call of the front-end surface: op is <<"move", row, col>>, <<"pass">>,
\* <<"resign">> or <<"undo">>.
Call(g, op) ==
    IF op[1] = "move" THEN make_move(g, op[2], op[3])
    ELSE IF op[1] = "pass" THEN pass_turn(g)
    ELSE IF op[1] = "resign" THEN resign(g)
    ELSE undo(g)

M(r, c) == <<"move", r, c>>

P == <<"pass">>

R == <<"resign">>

U == <<"undo">>

\* No loop of the engine is running between two calls of the front end.
NoFrame == [loop |-> "none"]

\* GameFactory.create_game followed by the calls of an opening, in order.
\* (Each call's result is bound through a singleton set so that it is computed
\* once before the next call starts.)
RECURSIVE Replay(_, _, _)
Replay(st, ops, i) ==
    IF i > Len(ops) THEN st
    ELSE CHOOSE r \in { Replay([g |-> t.g,
                                 last |-> [op |-> ops[i][1], err |-> t.err]],
                                ops, i + 1) : t \in {Call(st.g, ops[i])} } : TRUE

create_game(v, n) == [g |-> NewGame(v, n), last |-> [op |-> "create", err |-> "ok"]]

\* All coordinate pairs from one row/column off the board on each side.
Around(n) == ((-1)..n) \X ((-1)..n)

\* Every cell of the board, one position above it and one past its last
\* corner.
OnAndOff(n) == Positions(n) \cup {<<-1, 0>>, <<n, n>>}

\* The games explored: a variant, a board size, an opening (replayed through
\* the operations above, so every initial state is one the engine reaches
\* from construction) and the coordinates the moves are then drawn from.
Scenarios ==
    { [variant |-> "go", size |-> 1, opening |-> <<>>, cells |-> Around(1)],
      [variant |-> "go", size |-> 2, opening |-> <<>>, cells |-> Around(2)],
      [variant |-> "go", size |-> 3, opening |-> <<>>,
       cells |-> {<<0,0>>, <<0,1>>, <<1,0>>, <<1,1>>, <<2,2>>, <<-1,0>>, <<3,3>>}],
      \* a capture, a rejected suicide, then a pass
      [variant |-> "go", size |-> 2,
       opening |-> <<M(0,0), M(0,1), M(1,1), M(1,0), P>>,
       cells |-> Around(2)],
      \* test_capture_simple / test_undo_with_capture before the last move
      [variant |-> "go", size |-> 3,
       opening |-> <<M(1,1), M(1,0), M(0,0), M(0,1), M(0,2), M(1,2), M(2,2)>>,
       cells |-> OnAndOff(3)],
      \* test_suicide_illegal
      [variant |-> "go", size |-> 3,
       opening |-> <<M(0,0), M(1,0), M(0,2), M(0,1), M(2,0), M(1,2), M(2,2), M(2,1)>>,
       cells |-> OnAndOff(3)],
      \* a corner closed by Black, then a pass: White's (0,0) is suicide
      [variant |-> "go", size |-> 3,
       opening |-> <<M(0,1), M(2,2), M(1,0), M(2,1), P>>,
       cells |-> {<<0,0>>, <<1,1>>, <<0,1>>, <<3,3>>}],
      \* test_pass_end_and_winner_count before the passes
      [variant |-> "go", size |-> 3,
       opening |-> <<M(0,0), M(0,1), M(1,0), M(1,1), M(2,0)>>,
       cells |-> {<<2,2>>, <<0,0>>, <<-1,0>>}],
      \* White to play: (2,2) takes two black groups at once; after a pass,
      \* Black at (0,0) takes a white group that touches (0,0) on two sides
      [variant |-> "go", size |-> 3,
       opening |-> <<M(0,2), M(0,1), M(1,2), M(1,1), M(2,1), M(1,0), M(2,0)>>,
       cells |-> {<<2,2>>, <<0,0>>}],
      \* a 2 x 2 block of black stones facing a white row
      [variant |-> "go", size |-> 3,
       opening |-> <<M(0,0), M(2,2), M(0,1), M(2,1), M(1,0), M(2,0), M(1,1)>>,
       cells |-> {<<1,2>>, <<0,2>>}],
      [variant |-> "gomoku", size |-> 1, opening |-> <<>>, cells |-> Around(1)],
      [variant |-> "gomoku", size |-> 2, opening |-> <<>>, cells |-> Around(2)],
      \* test_draw before the last two moves
      [variant |-> "gomoku", size |-> 3,
       opening |-> <<M(0,0), M(0,1), M(0,2), M(1,0), M(1,1), M(1,2), M(2,0)>>,
       cells |-> {<<2,1>>, <<2,2>>, <<0,0>>, <<1,1>>, <<3,0>>, <<-1,-1>>}],
      \* test_horizontal_win / test_undo before the winning move
      [variant |-> "gomoku", size |-> 5,
       opening |-> <<M(0,0), M(4,4), M(0,1), M(4,3), M(0,2), M(4,2), M(0,3), M(4,1)>>,
       cells |-> {<<0,4>>, <<0,0>>, <<2,2>>, <<0,5>>, <<-1,4>>}],
      \* test_vertical_win
      [variant |-> "gomoku", size |-> 5,
       opening |-> <<M(0,0), M(4,4), M(1,0), M(4,3), M(2,0), M(4,2), M(3,0), M(4,1)>>,
       cells |-> {<<4,0>>, <<4,4>>, <<2,2>>, <<5,0>>}],
      \* test_diagonal_win
      [variant |-> "gomoku", size |-> 5,
       opening |-> <<M(0,0), M(4,0), M(1,1), M(4,1), M(2,2), M(4,2), M(3,3), M(4,3)>>,
       cells |-> {<<4,4>>, <<3,3>>, <<0,4>>, <<5,5>>}],
      \* the other diagonal, completed in the middle of the run
      [variant |-> "gomoku", size |-> 5,
       opening |-> <<M(0,4), M(4,1), M(1,3), M(4,2), M(3,1), M(4,3), M(4,0), M(4,4)>>,
       cells |-> {<<2,2>>, <<0,4>>, <<0,0>>, <<-1,5>>}],
      \* White to complete a row
      [variant |-> "gomoku", size |-> 5,
       opening |-> <<M(4,0), M(0,0), M(4,1), M(0,1), M(4,2), M(0,2), M(4,4),
                     M(0,3), M(3,3)>>,
       cells |-> {<<0,4>>, <<4,3>>, <<0,0>>, <<0,-1>>}],
      \* one cell left on a 5 x 5 board: Black at (0,4) fills the board and
      \* completes the top row
      [variant |-> "gomoku", size |-> 5,
       opening |-> <<M(0,0), M(1,0), M(0,1), M(1,1), M(0,2), M(1,4), M(0,3),
                     M(2,1), M(1,2), M(2,2), M(1,3), M(2,3), M(2,0), M(3,0),
                     M(2,4), M(3,2), M(3,1), M(3,4), M(3,3), M(4,1), M(4,0),
                     M(4,2), M(4,3), M(4,4)>>,
       cells |-> {<<0,4>>, <<0,0>>}],
      \* a run of six on a 6 x 6 board
      [variant |-> "gomoku", size |-> 6,
       opening |-> <<M(0,0), M(5,0), M(0,1), M(5,1), M(0,2), M(5,2), M(0,4),
                     M(5,3), M(0,5), M(4,5)>>,
       cells |-> {<<0,3>>, <<5,4>>, <<3,3>>, <<6,0>>}] }

Init ==
    \E sc \in Scenarios :
        LET st == Replay(create_game(sc.variant, sc.size), sc.opening, 1)
        IN /\ variant = st.g.variant
           /\ size = st.g.size
           /\ grid = st.g.grid
           /\ current_player = st.g.current_player
           /\ other_player = st.g.other_player
           /\ status = st.g.status
           /\ history = st.g.history
           /\ captured_black = st.g.captured_black
           /\ captured_white = st.g.captured_white
           /\ consecutive_passes = st.g.consecutive_passes
           /\ lastOp = st.last
           /\ steps = 0
           /\ cells = sc.cells
           /\ frame = NoFrame

\* The engine after a call, together with the call's outcome.
Commit(t, op) ==
    /\ grid' = t.g.grid
    /\ current_player' = t.g.current_player
    /\ other_player' = t.g.other_player
    /\ status' = t.g.status
    /\ history' = t.g.history
    /\ captured_black' = t.g.captured_black
    /\ captured_white' = t.g.captured_white
    /\ consecutive_passes' = t.g.consecutive_passes
    /\ lastOp' = [op |-> op, err |-> t.err]
    /\ steps' = steps + 1
    /\ UNCHANGED <<variant, size, cells, frame>>

GoMakeMove ==
    /\ variant = "go" /\ steps < MaxSteps
    /\ \E rc \in cells : Commit(go_make_move(Self, rc[1], rc[2]), "move")

GoPassTurn ==
    /\ variant = "go" /\ steps < MaxSteps
    /\ Commit(go_pass_turn(Self), "pass")

GoUndo ==
    /\ variant = "go" /\ steps < MaxSteps
    /\ Commit(go_undo(Self), "undo")

GomokuMakeMove ==
    /\ variant = "gomoku" /\ steps < MaxSteps
    /\ \E rc \in cells : Commit(gomoku_make_move(Self, rc[1], rc[2]), "move")

GomokuPassTurn ==
    /\ variant = "gomoku" /\ steps < MaxSteps
    /\ Commit(base_pass_turn(Self), "pass")

GomokuUndo ==
    /\ variant = "gomoku" /\ steps < MaxSteps
    /\ Commit(base_undo(Self), "undo")

Resign ==
    /\ variant \in {"go", "gomoku"} /\ steps < MaxSteps
    /\ Commit(resign(Self), "resign")

Next ==
    \/ GoMakeMove \/ GoPassTurn \/ GoUndo
    \/ GomokuMakeMove \/ GomokuPassTurn \/ GomokuUndo
    \/ Resign

Spec == Init /\ [][Next]_vars

TypeOK ==
    /\ variant \in {"go", "gomoku"}
    /\ status \in GameStatus
    /\ DOMAIN grid = Positions(size)
    /\ \A p \in DOMAIN grid : grid[p] \in {EMPTY, "black", "white"}

\* ------------------------------------------------- the Board used on its own
\* Board is a public class: a caller (src/tests/test_board.py) constructs one
\* and calls get_piece, place_piece and remove_piece directly, with any
\* coordinates and any colour string.  The engine fields are idle here.
PlaceColors == {"black", "white", "green"}

\* The coordinates such a caller tries: every cell, one row above the board
\* and one column right of it.
BoardCells(n) == Positions(n) \cup {<<-1, 0>>, <<0, n>>}

InitBoard ==
    \E n \in 1..MaxBoard :
        /\ variant = "board"
        /\ size = n
        /\ grid = Board(n)
        /\ current_player = black_player
        /\ other_player = white_player
        /\ status = "ONGOING"
        /\ history = <<>>
        /\ captured_black = 0
        /\ captured_white = 0
        /\ consecutive_passes = 0
        /\ lastOp = [op |-> "create", err |-> "ok"]
        /\ steps = 0
        /\ cells = BoardCells(n)
        /\ frame = NoFrame

BoardIdle ==
    UNCHANGED <<variant, size, current_player, other_player, status, history,
                captured_black, captured_white, consecutive_passes, steps,
                cells, frame>>

BoardPlacePiece ==
    /\ variant = "board"
    /\ \E rc \in cells, color \in PlaceColors :
          LET t == place_piece(Self, rc[1], rc[2], color)
          IN /\ grid' = t.g.grid
             /\ lastOp' = [op |-> "place", err |-> t.err]
    /\ BoardIdle

BoardRemovePiece ==
    /\ variant = "board"
    /\ \E rc \in cells :
          LET t == remove_piece(Self, rc[1], rc[2])
          IN /\ grid' = t.g.grid
             /\ lastOp' = [op |-> "remove", err |-> t.err]
    /\ BoardIdle

BoardGetPiece ==
    /\ variant = "board"
    /\ \E rc \in cells :
          LET t == get_piece(Self, rc[1], rc[2])
          IN /\ grid' = grid
             /\ lastOp' = [op |-> "get", err |-> t.err, val |-> t.val]
    /\ BoardIdle

NextBoard == BoardPlacePiece \/ BoardRemovePiece \/ BoardGetPiece

SpecBoard == InitBoard /\ [][NextBoard]_vars

\* ------------------------------------------------ construction by name
\* The names a caller passes to GameFactory.create_game: the two registered
\* ones in several spellings, padded with whitespace, and names that are not
\* registered.
GameTypes ==
    { <<"g", "o">>, <<"G", "O">>, <<"G", "o">>, <<"g", "O">>,
      <<" ", "g", "o">>, <<"G", "o", "\n">>, <<"\t", "g", "o", " ", " ">>,
      <<"g", " ", "o">>, <<"g", "o", "o">>, <<"o", "g">>, <<"g">>,
      <<"g", "o", "m", "o", "k", "u">>, <<"G", "o", "m", "o", "k", "u">>,
      <<"G", "O", "M", "O", "K", "U">>, <<"g", "o", "m", "o", "k", "u", " ">>,
      <<"g", "o", "m", "o", "k">>, <<"g", "o", "m", "o", "k", "u", "s">>,
      <<"c", "h", "e", "s", "s">>, <<"C", "h", "e", "s", "s">>,
      <<>>, <<" ">> }

\* The engine a caller receives from create_game(game_type, n), or none.
InitFactory ==
    \E game_type \in GameTypes, n \in 0..MaxBoard :
        LET t == factory_create_game(game_type, n)
        IN /\ variant = t.g.variant
           /\ size = t.g.size
           /\ grid = t.g.grid
           /\ current_player = t.g.current_player
           /\ other_player = t.g.other_player
           /\ status = t.g.status
           /\ history = t.g.history
           /\ captured_black = t.g.captured_black
           /\ captured_white = t.g.captured_white
           /\ consecutive_passes = t.g.consecutive_passes
           /\ lastOp = [op |-> "create", err |-> t.err,
                        game_type |-> game_type, size |-> n]
           /\ steps = 0
           /\ cells = Positions(t.g.size) \cup {<<-1, 0>>}
           /\ frame = NoFrame

\* The created engine is then played like any other.
SpecFactory == InitFactory /\ [][Next]_vars

\* ------------------------------------------------ the two while loops, stepwise
\* GoGame._find_chain and count_in_dir are the only loops of the engine that
\* are not a for over a fixed range or a finished collection.  Here each
\* iteration is one step; frame holds the locals of the running loop.

\* GoGame._find_chain up to the loop: color == EMPTY returns set() at once.
find_chain_enter(g, row, col) ==
    IF g.grid[<<row, col>>] = EMPTY
    THEN [loop |-> "returned", of |-> "find_chain", row |-> row, col |-> col,
          result |-> {}, visits |-> <<>>]
    ELSE [loop |-> "find_chain", row |-> row, col |-> col,
          color |-> g.grid[<<row, col>>],
          stack |-> << <<row, col>> >>, visited |-> {}, visits |-> <<>>]

\* A plausible slip: a popped cell is processed without asking whether it
\* has been visited already.
find_chain_step_no_skip(g, f) ==
    IF f.stack = <<>>
    THEN [loop |-> "returned", of |-> "find_chain", row |-> f.row,
          col |-> f.col, result |-> f.visited, visits |-> f.visits]
    ELSE LET p == f.stack[Len(f.stack)]
             rest == SubSeq(f.stack, 1, Len(f.stack) - 1)
             v2 == f.visited \cup {p}
             Same(q) == g.grid[q] = f.color /\ q \notin v2
         IN [f EXCEPT !.stack = rest \o SelectSeq(neighbors(g.size, p[1], p[2]), Same),
                      !.visited = v2,
                      !.visits = Append(f.visits, p)]

\* One iteration of the while loop of GoGame._find_chain (or the return when
\* the stack is empty).  visits lists the cells in the order visited.add
\* received them.
find_chain_step(g, f) ==
    IF f.stack = <<>>
    THEN [loop |-> "returned", of |-> "find_chain", row |-> f.row,
          col |-> f.col, result |-> f.visited, visits |-> f.visits]
    ELSE LET p == f.stack[Len(f.stack)]
             rest == SubSeq(f.stack, 1, Len(f.stack) - 1)
         IN IF p \in f.visited
            THEN [f EXCEPT !.stack = rest]
            ELSE LET v2 == f.visited \cup {p}
                     Same(q) == g.grid[q] = f.color /\ q \notin v2
                 IN [f EXCEPT !.stack = rest \o SelectSeq(neighbors(g.size, p[1], p[2]), Same),
                              !.visited = v2,
                              !.visits = Append(f.visits, p)]

\* count_in_dir up to the loop: the cursor starts one step from (row, col).
count_in_dir_enter(row, col, dr, dc, color) ==
    [loop |-> "count_in_dir", row |-> row, col |-> col, dr |-> dr, dc |-> dc,
     color |-> color, r |-> row + dr, c |-> col + dc, count |-> 0]

\* One test of the while condition of count_in_dir: an iteration of the body
\* when it holds, the return when it does not.
count_in_dir_step(g, f) ==
    IF validate_position(g, f.r, f.c) /\ g.grid[<<f.r, f.c>>] = f.color
    THEN [f EXCEPT !.count = f.count + 1, !.r = f.r + f.dr, !.c = f.c + f.dc]
    ELSE [loop |-> "returned", of |-> "count_in_dir", row |-> f.row,
          col |-> f.col, dr |-> f.dr, dc |-> f.dc, r |-> f.r, c |-> f.c,
          result |-> f.count]

\* The eight rays count_in_dir is called with: each axis, both ways.
Rays ==
    {directions[i] : i \in 1..Len(directions)}
      \cup {<<-directions[i][1], -directions[i][2]>> : i \in 1..Len(directions)}

\* A loop is entered on the board of a scenario: _find_chain on a cell of a
\* Go board, count_in_dir from a stone of a Gomoku board along one ray.
InitLoops ==
    \E sc \in Scenarios :
        LET st == Replay(create_game(sc.variant, sc.size), sc.opening, 1)
        IN /\ variant = st.g.variant
           /\ size = st.g.size
           /\ grid = st.g.grid
           /\ current_player = st.g.current_player
           /\ other_player = st.g.other_player
           /\ status = st.g.status
           /\ history = st.g.history
           /\ captured_black = st.g.captured_black
           /\ captured_white = st.g.captured_white
           /\ consecutive_passes = st.g.consecutive_passes
           /\ lastOp = st.last
           /\ steps = 0
           /\ cells = sc.cells
           /\ \E p \in Positions(st.g.size) :
                 IF st.g.variant = "go"
                 THEN frame = find_chain_enter(st.g, p[1], p[2])
                 ELSE /\ st.g.grid[p] # EMPTY
                      /\ \E d \in Rays :
                            frame = count_in_dir_enter(p[1], p[2], d[1], d[2],
                                                       st.g.grid[p])

LoopIdle ==
    UNCHANGED <<variant, size, grid, current_player, other_player, status,
                history, captured_black, captured_white, consecutive_passes,
                lastOp, steps, cells>>

\* stack.pop() gave a cell that is in visited: continue.
FindChainSkip ==
    /\ frame.loop = "find_chain"
    /\ frame.stack # <<>> /\ frame.stack[Len(frame.stack)] \in frame.visited
    /\ frame' = find_chain_step(Self, frame)
    /\ LoopIdle

\* stack.pop() gave a new cell: add it, push its same-coloured neighbours.
FindChainVisit ==
    /\ frame.loop = "find_chain"
    /\ frame.stack # <<>> /\ frame.stack[Len(frame.stack)] \notin frame.visited
    /\ frame' = find_chain_step(Self, frame)
    /\ LoopIdle

\* The stack is empty: return visited.
FindChainReturn ==
    /\ frame.loop = "find_chain"
    /\ frame.stack = <<>>
    /\ frame' = find_chain_step(Self, frame)
    /\ LoopIdle

\* The cursor is on a stone of the colour counted: count it and move on.
CountInDirAdvance ==
    /\ frame.loop = "count_in_dir"
    /\ count_in_dir_step(Self, frame).loop = "count_in_dir"
    /\ frame' = count_in_dir_step(Self, frame)
    /\ LoopIdle

\* The cursor left the board or the run: return count.
CountInDirReturn ==
    /\ frame.loop = "count_in_dir"
    /\ count_in_dir_step(Self, frame).loop = "returned"
    /\ frame' = count_in_dir_step(Self, frame)
    /\ LoopIdle

NextLoops ==
    \/ FindChainSkip \/ FindChainVisit \/ FindChainReturn
    \/ CountInDirAdvance \/ CountInDirReturn

\* A running loop is not suspended: the interpreter executes its next
\* iteration.
SpecLoops == InitLoops /\ [][NextLoops]_vars /\ WF_vars(NextLoops)

\* ------------------------------------------------------------------ properties
\* Notions the properties are stated in, defined without the engine's helpers.
Adjacent(p, q) ==
    \/ (p[1] = q[1] /\ (p[2] - q[2] = 1 \/ q[2] - p[2] = 1))
    \/ (p[2] = q[2] /\ (p[1] - q[1] = 1 \/ q[1] - p[1] = 1))

\* The maximal same-coloured group of gr that contains the cells S.
RECURSIVE Grow(_, _, _)
Grow(gr, color, S) ==
    LET S2 == S \cup {q \in DOMAIN gr :
                        gr[q] = color /\ \E x \in S : Adjacent(x, q)}
    IN IF S2 = S THEN S ELSE Grow(gr, color, S2)

GroupOf(gr, p) == Grow(gr, gr[p], {p})

Liberties(gr, G) ==
    {q \in DOMAIN gr : gr[q] = EMPTY /\ \E x \in G : Adjacent(x, q)}

Stones(gr, color) == {p \in DOMAIN gr : gr[p] = color}

Opposite(color) == IF color = "black" THEN "white" ELSE "black"

WinOf(color) == IF color = "black" THEN "BLACK_WIN" ELSE "WHITE_WIN"

\* The mover's captured counter.
CapturedBy(g, color) ==
    IF color = "black" THEN g.captured_black ELSE g.captured_white

\* Every move a caller can try on the current board, one row and column off
\* the board included, whatever the scenario's own moves are.
AnyMove == {M(rc[1], rc[2]) : rc \in Around(size)}

\* The fields an operation can change, history excluded.
Visible(g) ==
    [grid |-> g.grid, current_player |-> g.current_player,
     other_player |-> g.other_player, status |-> g.status,
     captured_black |-> g.captured_black,
     captured_white |-> g.captured_white,
     consecutive_passes |-> g.consecutive_passes]

\* The board once the mover's stone stands on an empty cell p, before any
\* capture.
Placed(g, p) == [g.grid EXCEPT ![p] = g.current_player.color]

\* The opponent stones that lose their last liberty when the mover's stone is
\* placed on p.
Dead(g, p) ==
    LET gr == Placed(g, p)
    IN UNION { GroupOf(gr, q) : q \in {x \in DOMAIN gr :
                 /\ Adjacent(p, x)
                 /\ gr[x] = g.other_player.color
                 /\ Liberties(gr, GroupOf(gr, x)) = {}} }

\* C1: in Go, undo() right after a successful move, pass or resign gives back
\* the grid, both captured counters, the pass counter, current/other and the
\* status the engine had before that operation (so the stones that move
\* captured return in their colour and earlier captures stay off the board).
C1_GoUndoIsInverse ==
    variant = "go" =>
        \A op \in AnyMove \cup {P, R} :
            LET t == Call(Self, op)
            IN t.err = "ok" =>
                 /\ go_undo(t.g).err = "ok"
                 /\ Visible(go_undo(t.g).g) = Visible(Self)

\* A Go position with earlier captures, reached by undoing a move that had
\* captured stones: that capturing move is available again.
C1_Witness ==
    /\ variant = "go" /\ lastOp = [op |-> "undo", err |-> "ok"]
    /\ steps >= 2
    /\ captured_black + captured_white > 0
    /\ \E op \in AnyMove :
          LET t == Call(Self, op)
          IN /\ t.err = "ok"
             /\ Len(Top(t.g.history).captured) >= 2
             /\ Stones(go_undo(t.g).g.grid, other_player.color)
                    # Stones(t.g.grid, other_player.color)

\* C2: a Go move onto an empty cell whose stone would stand in a group without
\* liberties and which takes no opponent stone fails with SuicideNotAllowed,
\* and a move that fails so leaves grid, counters, turn, status and history
\* exactly as they were.
C2_SuicideIsAtomic ==
    variant = "go" =>
        \A rc \in Around(size) :
            LET t == go_make_move(Self, rc[1], rc[2])
            IN /\ ( /\ ~is_over(Self)
                    /\ rc \in DOMAIN grid
                    /\ grid[rc] = EMPTY
                    /\ Dead(Self, rc) = {}
                    /\ Liberties(Placed(Self, rc),
                                 GroupOf(Placed(Self, rc), rc)) = {} )
                  => t.err = "SuicideNotAllowed"
               /\ t.err = "SuicideNotAllowed" => t.g = Self

\* A suicide attempt was just rejected in a game that has a history, a
\* non-zero pass counter and stones on the board.
C2_Witness ==
    /\ variant = "go" /\ lastOp = [op |-> "move", err |-> "SuicideNotAllowed"]
    /\ history # <<>>
    /\ consecutive_passes = 1
    /\ Stones(grid, "black") # {}

\* C3: after a successful Go move on p, every opponent group next to p that
\* had no liberty once the stone was placed is empty, and the mover's captured
\* counter has grown by exactly the number of stones taken off the board.
C3_CaptureRemovesDeadGroups ==
    variant = "go" =>
        \A rc \in DOMAIN grid :
            LET t == go_make_move(Self, rc[1], rc[2])
                mover == current_player.color
                removed == {p \in DOMAIN grid :
                              Placed(Self, rc)[p] # EMPTY /\ t.g.grid[p] = EMPTY}
            IN t.err = "ok" =>
                 /\ \A p \in Dead(Self, rc) : t.g.grid[p] = EMPTY
                 /\ CapturedBy(t.g, mover)
                      = CapturedBy(Self, mover) + Cardinality(removed)
                 /\ CapturedBy(t.g, Opposite(mover))
                      = CapturedBy(Self, Opposite(mover))

\* A move has just captured two or more stones.
C3_Witness ==
    /\ variant = "go" /\ lastOp = [op |-> "move", err |-> "ok"]
    /\ steps > 0
    /\ Len(Top(history).captured) >= 2
    /\ \A k \in 1..Len(Top(history).captured) :
          grid[<<Top(history).captured[k][1], Top(history).captured[k][2]>>]
              = EMPTY

\* C4: a Go pass that brings consecutive_passes to 2 ends the game: BlackWin
\* when black stones + captured_black exceed white stones + captured_white,
\* WhiteWin when they are fewer, Draw when the totals are equal.
C4_TwoPassesScore ==
    variant = "go" =>
        LET t == go_pass_turn(Self)
            black_total == Cardinality(Stones(t.g.grid, "black"))
                             + t.g.captured_black
            white_total == Cardinality(Stones(t.g.grid, "white"))
                             + t.g.captured_white
        IN (t.err = "ok" /\ t.g.consecutive_passes = 2) =>
             /\ is_over(t.g)
             /\ black_total > white_total => t.g.status = "BLACK_WIN"
             /\ black_total < white_total => t.g.status = "WHITE_WIN"
             /\ black_total = white_total => t.g.status = "DRAW"

\* The second consecutive pass has just ended a game in which stones were
\* captured.
C4_Witness ==
    /\ variant = "go" /\ lastOp = [op |-> "pass", err |-> "ok"]
    /\ consecutive_passes = 2
    /\ status # "ONGOING"
    /\ captured_black + captured_white > 0

\* The four axes of the board.
Axes == { <<0, 1>>, <<1, 0>>, <<1, 1>>, <<1, -1>> }

\* Some axis through p holds 5 consecutive cells of the colour, p among them.
RunThrough(gr, p, color) ==
    \E d \in Axes : \E k \in 0..4 : \A j \in 0..4 :
        LET q == <<p[1] + (j - k) * d[1], p[2] + (j - k) * d[2]>>
        IN q \in DOMAIN gr /\ gr[q] = color

\* C5: a successful Gomoku move that puts the stone into a run of 5 or more
\* of the mover's stones on a row, column or diagonal sets the status to the
\* mover's win, and get_winner() is then the mover.
C5_FiveInARowWins ==
    variant = "gomoku" =>
        \A rc \in DOMAIN grid :
            LET t == gomoku_make_move(Self, rc[1], rc[2])
                mover == current_player
            IN (t.err = "ok" /\ RunThrough(t.g.grid, rc, mover.color)) =>
                 /\ t.g.status = WinOf(mover.color)
                 /\ get_winner(t.g) = mover

\* A move has just won by completing a run on the diagonal that descends to
\* the left.
C5_Witness ==
    /\ variant = "gomoku" /\ lastOp = [op |-> "move", err |-> "ok"]
    /\ steps > 0
    /\ status = WinOf(other_player.color)
    /\ LET e == Top(history)
       IN \E k \in 0..4 : \A j \in 0..4 :
            LET q == <<e.row + (j - k), e.col - (j - k)>>
            IN q \in DOMAIN grid /\ grid[q] = other_player.color

\* C6: a successful Gomoku move that fills the last empty cell without a run
\* of five through the placed stone sets the status to Draw; the game is then
\* over and has no winner.
C6_FullBoardIsDraw ==
    variant = "gomoku" =>
        \A rc \in DOMAIN grid :
            LET t == gomoku_make_move(Self, rc[1], rc[2])
            IN ( /\ t.err = "ok"
                 /\ Stones(t.g.grid, EMPTY) = {}
                 /\ ~RunThrough(t.g.grid, rc, current_player.color) ) =>
                 /\ t.g.status = "DRAW"
                 /\ is_over(t.g)
                 /\ get_winner(t.g) = None

\* A move has just filled a board of at least four cells and drawn the game.
C6_Witness ==
    /\ variant = "gomoku" /\ lastOp = [op |-> "move", err |-> "ok"]
    /\ steps > 0 /\ size >= 2
    /\ Stones(grid, EMPTY) = {}
    /\ status = "DRAW"

\* C7: in Gomoku, undo() right after a successful move or resign gives back
\* the grid, current/other and the status the engine had before it; undoing a
\* winning move leaves the cell empty, the status Ongoing and no winner.
C7_GomokuUndoIsInverse ==
    variant = "gomoku" =>
        \A op \in AnyMove \cup {R} :
            LET t == Call(Self, op)
                u == base_undo(t.g)
            IN t.err = "ok" =>
                 /\ u.err = "ok"
                 /\ Visible(u.g) = Visible(Self)
                 /\ (op[1] = "move" /\ t.g.status \in {"BLACK_WIN", "WHITE_WIN"})
                      => /\ u.g.grid[<<op[2], op[3]>>] = EMPTY
                         /\ u.g.status = "ONGOING"
                         /\ get_winner(u.g) = None

\* An undo has just taken back a winning Gomoku move: the game is on again
\* and the winning move is available.
C7_Witness ==
    /\ variant = "gomoku" /\ lastOp = [op |-> "undo", err |-> "ok"]
    /\ steps >= 2
    /\ status = "ONGOING"
    /\ \E op \in AnyMove :
          /\ Call(Self, op).err = "ok"
          /\ Call(Self, op).g.status = WinOf(current_player.color)

\* C8: resign() always succeeds and sets the status to the win of the colour
\* opposite to the current player, whatever the board holds, and a following
\* undo() gives back the status, current and other of before the resign.
C8_ResignAndUndo ==
    LET t == resign(Self)
        u == undo(t.g)
    IN /\ t.err = "ok"
       /\ t.g.status = WinOf(Opposite(current_player.color))
       /\ u.err = "ok"
       /\ u.g.status = status
       /\ u.g.current_player = current_player
       /\ u.g.other_player = other_player

\* White has just resigned on a board with stones.
C8_Witness ==
    /\ lastOp = [op |-> "resign", err |-> "ok"]
    /\ steps > 0
    /\ current_player.color = "white"
    /\ status = "BLACK_WIN"
    /\ Stones(grid, "black") # {}

\* C9: a move, pass or undo that fails with GameOver, OutOfBounds,
\* AlreadyOccupied, PassNotSupported or NothingToUndo leaves the grid, the
\* turn, the status, the Go counters and the history exactly as they were.
C9_FailuresChangeNothing ==
    \A op \in AnyMove \cup {P, U} :
        LET t == Call(Self, op)
        IN t.err \in {"GameOver", "OutOfBounds", "AlreadyOccupied",
                      "PassNotSupported", "NothingToUndo"}
             => t.g = Self

\* C10: in Go every successful move, pass or resign appends exactly one entry
\* (of its own kind, recording the mover) above the entries already there,
\* every successful undo removes exactly the top entry, and a failed
\* operation, a move rejected as suicide included, leaves the history as it
\* was.
C10_GoHistoryDiscipline ==
    variant = "go" =>
        \A op \in AnyMove \cup {P, R, U} :
            LET t == Call(Self, op)
            IN /\ (op # U /\ t.err = "ok") =>
                    /\ Len(t.g.history) = Len(history) + 1
                    /\ Pop(t.g.history) = history
                    /\ Top(t.g.history).action = op[1]
                    /\ Top(t.g.history).previous_current = current_player
               /\ (op = U /\ t.err = "ok") =>
                    /\ Len(t.g.history) = Len(history) - 1
                    /\ t.g.history = Pop(history)
               /\ t.err # "ok" => t.g.history = history

\* A suicide has just been rejected in a Go game whose history holds moves
\* and a pass.
C10_Witness ==
    /\ variant = "go" /\ lastOp = [op |-> "move", err |-> "SuicideNotAllowed"]
    /\ steps > 0
    /\ \E i, j \in 1..Len(history) :
          history[i].action = "move" /\ history[j].action = "pass"

\* C11: once the status is BlackWin, WhiteWin or Draw every move (any
\* coordinates, on or off the board, free or occupied), and in Go every pass,
\* fails with GameOver and leaves the grid, the turn, the status, the counters
\* and the history as they were.
C11_TerminalRejectsPlay ==
    status # "ONGOING" =>
        \A op \in AnyMove \cup (IF variant = "go" THEN {P} ELSE {}) :
            LET t == Call(Self, op)
            IN t.err = "GameOver" /\ t.g = Self

\* A move has just been refused on a finished game that has stones on the
\* board and a history.
C11_Witness ==
    /\ lastOp = [op |-> "move", err |-> "GameOver"]
    /\ steps > 0
    /\ status # "ONGOING"
    /\ history # <<>>
    /\ Stones(grid, "black") # {}

\* C12: the status goes from BlackWin, WhiteWin or Draw back to Ongoing only
\* in a successful undo step; from a finished game no move (any coordinates),
\* pass or resign, successful or failed, gives a status of Ongoing.
C12_OnlyUndoReopens ==
    [][ /\ (status # "ONGOING" /\ status' = "ONGOING")
             => lastOp' = [op |-> "undo", err |-> "ok"]
        /\ status # "ONGOING" =>
             \A op \in AnyMove \cup {P, R} :
                 Call(Self, op).g.status # "ONGOING" ]_vars

\* An undo has just reopened a Go game: the next pass would be the second in
\* a row and end it again.
C12_Witness ==
    /\ variant = "go"
    /\ lastOp = [op |-> "undo", err |-> "ok"]
    /\ steps >= 2
    /\ status = "ONGOING"
    /\ consecutive_passes = 1
    /\ go_pass_turn(Self).g.status # "ONGOING"

\* C13: undo() on an empty history fails with NothingToUndo and leaves the
\* grid, the turn, the status and the counters as they were; on a non-empty
\* history undo() succeeds, in Go and in Gomoku, whether the game is Ongoing
\* or finished.
C13_UndoNeedsHistory ==
    LET t == undo(Self)
    IN /\ history = <<>> =>
            t.err = "NothingToUndo" /\ Visible(t.g) = Visible(Self)
       /\ history # <<>> => t.err = "ok"

\* An undo has just failed on an empty history, at least two operations
\* after the opening.
C13_Witness ==
    /\ lastOp = [op |-> "undo", err |-> "NothingToUndo"]
    /\ steps >= 3
    /\ history = <<>>

\* C14: pass() on a Gomoku game fails with PassNotSupported in every state,
\* finished games included, and leaves the grid, the turn, the status and the
\* history as they were.
C14_GomokuCannotPass ==
    variant = "gomoku" =>
        LET t == pass_turn(Self)
        IN /\ t.err = "PassNotSupported"
           /\ t.g.grid = grid
           /\ t.g.current_player = current_player
           /\ t.g.other_player = other_player
           /\ t.g.status = status
           /\ t.g.history = history

\* A pass has just been refused in a Gomoku game with stones of both colours.
C14_Witness ==
    /\ variant = "gomoku"
    /\ lastOp = [op |-> "pass", err |-> "PassNotSupported"]
    /\ steps > 0
    /\ Stones(grid, "black") # {} /\ Stones(grid, "white") # {}

\* C15: in every reachable state current and other are the two distinct
\* players, one Black and one White; every successful move or pass makes the
\* mover the other player and the opponent the current one, and an undo of
\* that move or pass puts both pointers back.
C15_TurnPointers ==
    /\ {current_player.color, other_player.color} = {"black", "white"}
    /\ current_player # other_player
    /\ \A op \in AnyMove \cup {P} :
          LET t == Call(Self, op)
              u == undo(t.g)
          IN t.err = "ok" =>
               /\ t.g.current_player = other_player
               /\ t.g.other_player = current_player
               /\ u.err = "ok"
               /\ u.g.current_player = current_player
               /\ u.g.other_player = other_player

\* White has just made a successful move, so that Black is to play again.
C15_Witness ==
    /\ lastOp = [op |-> "move", err |-> "ok"]
    /\ steps >= 2
    /\ current_player.color = "black" /\ other_player.color = "white"
    /\ Top(history).action = "move"
    /\ Top(history).previous_current.color = "white"

\* C16: in every reachable state isOver() is true exactly when the status is
\* not Ongoing, and winner() is the player holding Black when the status is
\* BlackWin, the player holding White when it is WhiteWin, and no player at
\* all when it is Ongoing or Draw.
C16_OverAndWinner ==
    LET w == get_winner(Self)
        players == {current_player, other_player}
    IN /\ is_over(Self) <=> status \in {"BLACK_WIN", "WHITE_WIN", "DRAW"}
       /\ status = "BLACK_WIN" => w \in players /\ w.color = "black"
       /\ status = "WHITE_WIN" => w \in players /\ w.color = "white"
       /\ status \in {"ONGOING", "DRAW"} => w \notin players

\* A finished game without a winner: a draw reached by play.
C16_Witness ==
    /\ status = "DRAW"
    /\ steps > 0
    /\ lastOp.err = "ok" /\ lastOp.op \in {"move", "pass"}
    /\ is_over(Self)
    /\ get_winner(Self) = None

\* C17: in Go every successful move leaves the pass counter at 0, and every
\* successful pass pushes exactly one pass entry, swaps current and other and
\* raises the pass counter by exactly 1, while the grid and both captured
\* counters stay as they were.
C17_GoPassCounter ==
    variant = "go" =>
        /\ \A op \in AnyMove :
              LET t == Call(Self, op)
              IN t.err = "ok" => t.g.consecutive_passes = 0
        /\ LET t == Call(Self, P)
           IN t.err = "ok" =>
                /\ Len(t.g.history) = Len(history) + 1
                /\ SubSeq(t.g.history, 1, Len(history)) = history
                /\ t.g.history[Len(t.g.history)].action = "pass"
                /\ t.g.current_player = other_player
                /\ t.g.other_player = current_player
                /\ t.g.consecutive_passes = consecutive_passes + 1
                /\ t.g.grid = grid
                /\ t.g.captured_black = captured_black
                /\ t.g.captured_white = captured_white

\* A successful Go move has just followed a pass and put the counter back
\* to 0.
C17_Witness ==
    /\ variant = "go"
    /\ lastOp = [op |-> "move", err |-> "ok"]
    /\ steps > 0
    /\ history[Len(history)].action = "move"
    /\ history[Len(history)].prev_consecutive_passes = 1
    /\ consecutive_passes = 0

\* Coordinates two rows and columns beyond each edge of the board.
Beyond(n) == ((-2)..(n + 1)) \X ((-2)..(n + 1))

\* C18: on every board, place(row, col, color) on an in-bounds Empty cell
\* succeeds, a get of that cell then returns color and no other cell has
\* changed; a place on a cell that holds a stone (just placed, or placed
\* earlier and not cleared since) fails with AlreadyOccupied and the cell
\* keeps the colour it had.
C18_PlaceThenGet ==
    \A p \in Positions(size) : \A color \in {"black", "white"} :
        LET t == place_piece(Self, p[1], p[2], color)
        IN /\ grid[p] = "empty" =>
                /\ t.err = "ok"
                /\ get_piece(t.g, p[1], p[2]) = [err |-> "ok", val |-> color]
                /\ DOMAIN t.g.grid = DOMAIN grid
                /\ \A q \in DOMAIN grid \ {p} : t.g.grid[q] = grid[q]
                /\ \A second \in {"black", "white"} :
                      LET t2 == place_piece(t.g, p[1], p[2], second)
                      IN /\ t2.err = "AlreadyOccupied"
                         /\ t2.g.grid = t.g.grid
                         /\ t2.g.grid[p] = color
           /\ grid[p] # "empty" =>
                t.err = "AlreadyOccupied" /\ t.g.grid = grid

\* A place has just been refused on an occupied cell of a board that holds
\* stones of both colours.
C18_Witness ==
    /\ variant = "board"
    /\ lastOp = [op |-> "place", err |-> "AlreadyOccupied"]
    /\ \E p, q \in DOMAIN grid : grid[p] = "black" /\ grid[q] = "white"

\* C19: get, place and clear fail with OutOfBounds whenever row or col is
\* outside [0, N), negative indices included and whatever the colour; on the
\* board, place with a colour other than Black/White fails with InvalidColor
\* and clear on an Empty cell fails with NotOccupied; none of these failures
\* changes a cell.
C19_GridErrors ==
    /\ \A p \in Beyond(size) \ Positions(size) :
          /\ get_piece(Self, p[1], p[2]).err = "OutOfBounds"
          /\ remove_piece(Self, p[1], p[2]).err = "OutOfBounds"
          /\ remove_piece(Self, p[1], p[2]).g.grid = grid
          /\ \A color \in {"black", "white", "green", "empty", ""} :
                /\ place_piece(Self, p[1], p[2], color).err = "OutOfBounds"
                /\ place_piece(Self, p[1], p[2], color).g.grid = grid
    /\ \A p \in Positions(size) :
          /\ \A color \in {"green", "empty", "", "Black"} :
                /\ place_piece(Self, p[1], p[2], color).err = "InvalidColor"
                /\ place_piece(Self, p[1], p[2], color).g.grid = grid
          /\ grid[p] = "empty" =>
                /\ remove_piece(Self, p[1], p[2]).err = "NotOccupied"
                /\ remove_piece(Self, p[1], p[2]).g.grid = grid

\* A place with a colour that is neither Black nor White has just been
\* refused on a board that holds a stone and an Empty cell.
C19_Witness ==
    /\ variant = "board"
    /\ lastOp = [op |-> "place", err |-> "InvalidColor"]
    /\ \E p, q \in DOMAIN grid : grid[p] # "empty" /\ grid[q] = "empty"

\* The letters of the two registered names, and what "the same up to case"
\* means for the characters of a name.
GoName == <<"g", "o">>

GomokuName == <<"g", "o", "m", "o", "k", "u">>

CasePairs ==
    {<<"g", "G">>, <<"o", "O">>, <<"m", "M">>, <<"k", "K">>, <<"u", "U">>}

SameUpToCase(s, t) ==
    /\ Len(s) = Len(t)
    /\ \A i \in 1..Len(s) :
          s[i] = t[i] \/ <<s[i], t[i]>> \in CasePairs
                      \/ <<t[i], s[i]>> \in CasePairs

\* The variant a name designates when matched case-insensitively, or "none".
Designates(s) ==
    IF SameUpToCase(s, GoName) THEN "go"
    ELSE IF SameUpToCase(s, GomokuName) THEN "gomoku"
    ELSE "none"

Blank(ch) == ch \in {" ", "\t", "\n"}

\* s without the blanks at its two ends.
Trim(s) ==
    LET ends == {ij \in (1..(Len(s) + 1)) \X (0..Len(s)) :
                   /\ ij[1] <= ij[2] + 1
                   /\ \A k \in 1..Len(s) :
                         (k < ij[1] \/ k > ij[2]) => Blank(s[k])
                   /\ ij[1] <= ij[2] =>
                         ~Blank(s[ij[1]]) /\ ~Blank(s[ij[2]])}
        ij == CHOOSE e \in ends : TRUE
    IN [k \in 1..(ij[2] - ij[1] + 1) |-> s[ij[1] + k - 1]]

\* The engine in the variables is the one construction promises for variant v
\* and size n.
FreshEngine(v, n) ==
    /\ variant = v /\ size = n
    /\ DOMAIN grid = (0..(n - 1)) \X (0..(n - 1))
    /\ \A p \in DOMAIN grid : grid[p] = "empty"
    /\ current_player.color = "black" /\ other_player.color = "white"
    /\ status = "ONGOING"
    /\ history = <<>>
    /\ v = "go" =>
         captured_black = 0 /\ captured_white = 0 /\ consecutive_passes = 0

C21_LoopsTerminate ==
    /\ [](frame.loop \in {"find_chain", "returned"} /\ "visits" \in DOMAIN frame =>
            /\ \A i, j \in 1..Len(frame.visits) :
                  frame.visits[i] = frame.visits[j] => i = j
            /\ Len(frame.visits) <= size * size)
    /\ [](frame.loop = "count_in_dir" =>
            /\ frame.r \in (-1)..size /\ frame.c \in (-1)..size
            /\ frame.count < size)
    /\ <>(frame.loop = "returned")

\* The flood fill has returned a group of four stones or more after taking
\* an already visited cell off its stack.
C21_Witness ==
    /\ frame.loop = "returned" /\ frame.of = "find_chain"
    /\ Cardinality(frame.result) >= 4
    /\ Len(frame.visits) = Cardinality(frame.result)

\* C22: in an Ongoing Go game a move onto an Empty cell that takes the last
\* liberty of at least one adjacent opponent group is accepted, whether or
\* not the placed stone had an Empty neighbour when it was placed; after it
\* the placed stone is on the board and its group has at least one liberty.
C22_CaptureBeatsSuicide ==
    (variant = "go" /\ status = "ONGOING") =>
        \A p \in DOMAIN grid :
            (grid[p] = "empty" /\ Dead(Self, p) # {}) =>
                LET t == Call(Self, M(p[1], p[2]))
                IN /\ t.err = "ok"
                   /\ t.g.grid[p] = current_player.color
                   /\ Liberties(t.g.grid, GroupOf(t.g.grid, p)) # {}

\* A capturing move has just been accepted although every neighbour of the
\* placed stone held a stone when it was placed.
C22_Witness ==
    /\ variant = "go" /\ lastOp = [op |-> "move", err |-> "ok"]
    /\ steps > 0
    /\ LET e == history[Len(history)]
           p == <<e.row, e.col>>
           taken == {<<e.captured[i][1], e.captured[i][2]>> :
                        i \in 1..Len(e.captured)}
       IN /\ e.action = "move" /\ taken # {}
          /\ \A q \in DOMAIN grid :
                Adjacent(p, q) => (q \in taken \/ grid[q] # "empty")
          /\ Liberties(grid, GroupOf(grid, p)) # {}

\* The cells listed in the captured stones of a Go move entry.
TakenBy(e) == {<<e.captured[i][1], e.captured[i][2]>> : i \in 1..Len(e.captured)}

\* C23: after every successful Go move the captured stones recorded for the
\* move list each removed cell exactly once, in the opponent's colour, and
\* the mover's captured counter has grown by exactly the length of that
\* list, also when several neighbours of the placed stone belong to one and
\* the same dead group, which is then captured once.
C23_CaptureOncePerGroup ==
    variant = "go" =>
        \A op \in AnyMove :
            LET t == Call(Self, op)
                e == t.g.history[Len(t.g.history)]
                mover == current_player.color
            IN t.err = "ok" =>
                 /\ \A i, j \in 1..Len(e.captured) :
                       (e.captured[i][1] = e.captured[j][1]
                          /\ e.captured[i][2] = e.captured[j][2]) => i = j
                 /\ \A i \in 1..Len(e.captured) :
                       e.captured[i][3] = other_player.color
                 /\ TakenBy(e) = Dead(Self, <<op[2], op[3]>>)
                 /\ CapturedBy(t.g, mover) - CapturedBy(Self, mover)
                      = Len(e.captured)
                 /\ CapturedBy(t.g, Opposite(mover))
                      = CapturedBy(Self, Opposite(mover))

\* A move has just captured one group that touched the placed stone on two
\* sides.
C23_Witness ==
    /\ variant = "go" /\ lastOp = [op |-> "move", err |-> "ok"]
    /\ steps > 0
    /\ LET e == history[Len(history)]
           p == <<e.row, e.col>>
           before == [q \in DOMAIN grid |->
                        IF q \in TakenBy(e) THEN current_player.color
                        ELSE grid[q]]
       IN /\ e.action = "move"
          /\ \E a, b \in TakenBy(e) :
                /\ a # b /\ Adjacent(p, a) /\ Adjacent(p, b)
                /\ b \in GroupOf(before, a)
          /\ CapturedBy(Self, other_player.color)
               - (IF other_player.color = "black"
                  THEN e.prev_captured_black ELSE e.prev_captured_white)
               = Cardinality(TakenBy(e))

\* Every order in which the members of the sequence s can be examined.
Orders(s) ==
    {[i \in 1..Len(s) |-> s[f[i]]] :
        f \in {h \in [1..Len(s) -> 1..Len(s)] :
                 \A i, j \in 1..Len(s) : h[i] = h[j] => i = j}}

\* C24: for every reachable Go state and every legal move, the stones the
\* capture step removes, the grid it leaves and both captured counters are
\* the same for every order in which the neighbours of the placed stone are
\* examined, and they are those of the move as the engine makes it.
C24_ScanOrderIrrelevant ==
    variant = "go" =>
        \A op \in AnyMove :
            LET t == Call(Self, op)
                am == apply_move(Self, op[2], op[3]).g
                e == t.g.history[Len(t.g.history)]
            IN t.err = "ok" =>
                 \A nb \in Orders(neighbors(size, op[2], op[3])) :
                     LET alt == capture_loop(
                                    [g |-> am, captured |-> <<>>,
                                     processed |-> {}],
                                    nb, 1, other_player.color)
                     IN /\ alt.g.grid = t.g.grid
                        /\ alt.g.captured_black = t.g.captured_black
                        /\ alt.g.captured_white = t.g.captured_white
                        /\ {alt.captured[i] : i \in 1..Len(alt.captured)}
                             = {e.captured[i] : i \in 1..Len(e.captured)}

\* A move has just captured two separate groups, each next to the placed
\* stone.
C24_Witness ==
    /\ variant = "go" /\ lastOp = [op |-> "move", err |-> "ok"]
    /\ steps > 0
    /\ LET e == history[Len(history)]
           p == <<e.row, e.col>>
           before == [q \in DOMAIN grid |->
                        IF q \in TakenBy(e) THEN current_player.color
                        ELSE grid[q]]
       IN /\ e.action = "move"
          /\ \E a, b \in TakenBy(e) :
                /\ Adjacent(p, a) /\ Adjacent(p, b)
                /\ b \notin GroupOf(before, a)

\* C25: a successful Go move at p changes p from Empty to the mover's colour
\* and the cells of the opponent groups it captures to Empty, and nothing
\* else: every other cell keeps its content, no stone of the mover's colour
\* leaves the board, and an opponent group that still has a liberty once the
\* stone is placed, or that has no member orthogonally next to p, keeps all
\* its stones.
C25_GoMoveFrame ==
    variant = "go" =>
        \A op \in AnyMove :
            LET t == Call(Self, op)
                p == <<op[2], op[3]>>
                mover == current_player.color
                opp == other_player.color
                changed == {q \in DOMAIN grid : t.g.grid[q] # grid[q]}
            IN t.err = "ok" =>
                 /\ DOMAIN t.g.grid = DOMAIN grid
                 /\ grid[p] = "empty" /\ t.g.grid[p] = mover
                 /\ \A q \in changed \ {p} :
                       /\ grid[q] = opp /\ t.g.grid[q] = "empty"
                       /\ Liberties(Placed(Self, p), GroupOf(Placed(Self, p), q)) = {}
                       /\ \E x \in GroupOf(Placed(Self, p), q) : Adjacent(p, x)
                 /\ \A q \in DOMAIN grid : grid[q] = mover => t.g.grid[q] = mover
                 /\ \A q \in DOMAIN grid :
                       (/\ grid[q] = opp
                        /\ \/ Liberties(Placed(Self, p), GroupOf(Placed(Self, p), q)) # {}
                           \/ \A x \in GroupOf(Placed(Self, p), q) : ~Adjacent(p, x))
                         => \A x \in GroupOf(Placed(Self, p), q) : t.g.grid[x] = opp

\* A capturing move has just left on the board an opponent stone standing
\* next to the placed one, a stone of a group that kept a liberty.
C25_Witness ==
    /\ variant = "go" /\ lastOp = [op |-> "move", err |-> "ok"]
    /\ steps > 0
    /\ LET e == history[Len(history)]
       IN /\ e.action = "move" /\ Len(e.captured) > 0
          /\ \E q \in DOMAIN grid :
                /\ Adjacent(<<e.row, e.col>>, q)
                /\ grid[q] = current_player.color
          /\ \E q \in DOMAIN grid : grid[q] = other_player.color
                                     /\ q # <<e.row, e.col>>

\* C26: after a successful Gomoku move by colour X at p the status is X's win
\* exactly when some row, column or diagonal through p holds at least 5
\* consecutive X stones with p among them (longer runs included); failing
\* that it is Draw exactly when no cell is Empty, and Ongoing otherwise.  The
\* status is never the opponent's win, and a move that fills the board and
\* completes a run gives the win.
C26_GomokuOutcomeExact ==
    variant = "gomoku" =>
        \A op \in AnyMove :
            LET t == Call(Self, op)
                p == <<op[2], op[3]>>
                X == current_player.color
                run == RunThrough(t.g.grid, p, X)
                full == \A q \in DOMAIN t.g.grid : t.g.grid[q] # "empty"
            IN t.err = "ok" =>
                 /\ t.g.grid[p] = X
                 /\ t.g.status = WinOf(X) <=> run
                 /\ t.g.status = "DRAW" <=> (~run /\ full)
                 /\ t.g.status = "ONGOING" <=> (~run /\ ~full)
                 /\ t.g.status # WinOf(Opposite(X))

\* A move has just filled the last cell of a 5 x 5 board and won by
\* completing a run.
C26_Witness ==
    /\ variant = "gomoku" /\ lastOp = [op |-> "move", err |-> "ok"]
    /\ steps > 0 /\ size = 5
    /\ \A q \in DOMAIN grid : grid[q] # "empty"
    /\ status = WinOf(other_player.color)
    /\ RunThrough(grid, <<history[Len(history)].row, history[Len(history)].col>>,
                  other_player.color)

\* C27: in an Ongoing Go game a move onto a cell that holds a stone fails
\* with AlreadyOccupied and a move to coordinates off the board fails with
\* OutOfBounds; in both cases the grid, current and other, the status, both
\* captured counters, the pass counter and the history are as before (on a
\* finished game the same moves fail with GameOver, equally without effect).
C27_GoBadMoveIsNoOp ==
    variant = "go" =>
        \A p \in Beyond(size) :
            LET t == Call(Self, M(p[1], p[2]))
                bad == p \notin DOMAIN grid \/ grid[p] # "empty"
            IN bad =>
                 /\ t.g = Self
                 /\ t.err = IF status # "ONGOING" THEN "GameOver"
                            ELSE IF p \notin DOMAIN grid THEN "OutOfBounds"
                            ELSE "AlreadyOccupied"

\* A Go move onto an occupied cell has just been refused in a game with a
\* history and captured stones.
C27_Witness ==
    /\ variant = "go" /\ lastOp = [op |-> "move", err |-> "AlreadyOccupied"]
    /\ steps > 0
    /\ history # <<>>
    /\ captured_black + captured_white > 0

\* C28: when a Go pass is the second in a row and ends the game, undoing it
\* gives back status Ongoing, a pass counter of 1 and the turn of the player
\* who made that pass; after the undo a pass is accepted again (and again
\* ends the game) and no move is refused with GameOver: every move onto an
\* Empty cell is answered as it was before the pass.
C28_UndoGameEndingPass ==
    (variant = "go" /\ status = "ONGOING" /\ consecutive_passes = 1) =>
        LET t == Call(Self, P)
            u == Call(t.g, U)
            again == Call(u.g, P)
        IN /\ t.err = "ok" /\ t.g.status # "ONGOING"
           /\ u.err = "ok"
           /\ u.g.status = "ONGOING"
           /\ u.g.consecutive_passes = 1
           /\ u.g.current_player = current_player
           /\ u.g.other_player = other_player
           /\ again.err = "ok" /\ again.g.status = t.g.status
           /\ \A op \in AnyMove :
                 /\ Call(u.g, op).err # "GameOver"
                 /\ Call(u.g, op).err = Call(Self, op).err
                 /\ Visible(Call(u.g, op).g) = Visible(Call(Self, op).g)

\* The pass that ended a Go game has just been undone: the last entry of the
\* history is the first of the two passes, and a move is open to the player.
C28_Witness ==
    /\ variant = "go" /\ lastOp = [op |-> "undo", err |-> "ok"]
    /\ steps >= 2
    /\ status = "ONGOING" /\ consecutive_passes = 1
    /\ history # <<>> /\ history[Len(history)].action = "pass"
    /\ \E op \in AnyMove : Call(Self, op).err = "ok"

\* C29: resign() succeeds in every reachable state, finished games included:
\* it appends exactly one resign entry that records the status of before, and
\* sets the status to the win of the colour opposite to the current player,
\* whatever result (BlackWin, WhiteWin or Draw) was there; the undo() after
\* it puts that earlier status back.
C29_ResignAlwaysSucceeds ==
    LET t == Call(Self, R)
        u == Call(t.g, U)
    IN /\ t.err = "ok"
       /\ Len(t.g.history) = Len(history) + 1
       /\ \A i \in 1..Len(history) : t.g.history[i] = history[i]
       /\ t.g.history[Len(history) + 1].action = "resign"
       /\ t.g.history[Len(history) + 1].previous_status = status
       /\ t.g.status = WinOf(Opposite(current_player.color))
       /\ u.err = "ok"
       /\ u.g.status = status
       /\ u.g.history = history

\* A resignation has just replaced the result of a game that was already
\* finished with a different result.
C29_Witness ==
    /\ lastOp = [op |-> "resign", err |-> "ok"]
    /\ steps > 0
    /\ history[Len(history)].action = "resign"
    /\ history[Len(history)].previous_status \in {"BLACK_WIN", "WHITE_WIN", "DRAW"}
    /\ history[Len(history)].previous_status # status

\* C30: resign() changes the status and the history and nothing else: every
\* cell of the grid, current and other (the turn is not swapped), both
\* captured counters and the pass counter are after resign() what they were
\* before it.
C30_ResignFrame ==
    LET t == Call(Self, R)
    IN /\ t.g.grid = grid
       /\ t.g.current_player = current_player
       /\ t.g.other_player = other_player
       /\ t.g.captured_black = captured_black
       /\ t.g.captured_white = captured_white
       /\ t.g.consecutive_passes = consecutive_passes
       /\ t.g.size = size /\ t.g.variant = variant
       /\ t.g.history # history

\* A player has just resigned a Go game with captured stones and a pending
\* pass; the counters and the turn are still those of the position.
C30_Witness ==
    /\ variant = "go" /\ lastOp = [op |-> "resign", err |-> "ok"]
    /\ steps > 0
    /\ captured_black + captured_white > 0
    /\ consecutive_passes = 1
    /\ history[Len(history)].action = "resign"
    /\ history[Len(history)].previous_current = current_player
    /\ status = WinOf(other_player.color)

\* C31: in every Go state reached by moves, passes, resigns and undos, every
\* maximal same-coloured group on the board has at least one liberty, an
\* empty cell orthogonally adjacent to one of its stones.
C31_GroupsHaveLiberties ==
    variant = "go" =>
        \A p \in DOMAIN grid :
            grid[p] # EMPTY => Liberties(grid, GroupOf(grid, p)) # {}

\* A Go board, after play that took stones, on which a group of two or more
\* stones is down to its last liberty and both colours stand.
C31_Witness ==
    /\ variant = "go" /\ steps > 0
    /\ captured_black + captured_white > 0
    /\ Stones(grid, "black") # {} /\ Stones(grid, "white") # {}
    /\ \E p \in DOMAIN grid :
          /\ grid[p] # EMPTY
          /\ Cardinality(GroupOf(grid, p)) >= 2
          /\ Cardinality(Liberties(grid, GroupOf(grid, p))) = 1

\* C32: every reachable Go board has an empty cell, so no move ever takes
\* the board-full scoring branch: an accepted move leaves an empty cell and
\* the status Ongoing, a finished Go game has a resign on top of its history
\* or a pass that brought the pass counter to 2, and on a 1 x 1 board the
\* only cell is refused as suicide.
C32_GoBoardNeverFull ==
    variant = "go" =>
        /\ \E p \in DOMAIN grid : grid[p] = EMPTY
        /\ status # "ONGOING" =>
              /\ history # <<>>
              /\ \/ Top(history).action = "resign"
                 \/ Top(history).action = "pass" /\ consecutive_passes = 2
        /\ \A m \in AnyMove :
              LET t == Call(Self, m)
              IN t.err = "ok" =>
                    /\ t.g.status = "ONGOING"
                    /\ \E p \in DOMAIN t.g.grid : t.g.grid[p] = EMPTY
        /\ (size = 1 /\ status = "ONGOING") =>
              Call(Self, M(0, 0)).err = "SuicideNotAllowed"

\* A move has just been accepted on a Go board and left a single empty cell,
\* and the game goes on.
C32_Witness ==
    /\ variant = "go" /\ steps > 0
    /\ lastOp = [op |-> "move", err |-> "ok"]
    /\ status = "ONGOING"
    /\ Cardinality({p \in DOMAIN grid : grid[p] = EMPTY}) = 1

\* The number of move entries of the history made by the given colour.
MovesBy(h, color) ==
    Cardinality({i \in 1..Len(h) :
                    h[i].action = "move" /\ h[i].previous_current.color = color})

\* C33: stone conservation in Go: in every reachable state the black stones
\* on the board plus captured_white are as many as the move entries of Black
\* in the history, the white stones plus captured_black as many as the move
\* entries of White, and neither counter is negative.
C33_GoStoneConservation ==
    variant = "go" =>
        /\ Cardinality(Stones(grid, "black")) + captured_white
              = MovesBy(history, "black")
        /\ Cardinality(Stones(grid, "white")) + captured_black
              = MovesBy(history, "white")
        /\ captured_black >= 0 /\ captured_white >= 0

\* An undo has just succeeded in a Go game whose history still holds a move
\* that took stones and whose board carries both colours.
C33_Witness ==
    /\ variant = "go" /\ steps > 0
    /\ lastOp = [op |-> "undo", err |-> "ok"]
    /\ captured_black + captured_white > 0
    /\ \E i \in 1..Len(history) :
          history[i].action = "move" /\ history[i].captured # <<>>
    /\ Stones(grid, "black") # {} /\ Stones(grid, "white") # {}

\* C34: in every reachable Go state consecutive_passes is 0, 1 or 2, and it
\* is 2 only when the game is over: while the status is Ongoing it is at
\* most 1.
C34_GoPassCounterRange ==
    variant = "go" =>
        /\ consecutive_passes \in 0..2
        /\ consecutive_passes = 2 => status # "ONGOING"
        /\ status = "ONGOING" => consecutive_passes <= 1

\* An undo has just succeeded in a Go game that two passes had ended and
\* left it ended, with the pass counter at 2: the resign made after the
\* second pass was taken back.
C34_Witness ==
    /\ variant = "go" /\ steps > 0
    /\ lastOp = [op |-> "undo", err |-> "ok"]
    /\ consecutive_passes = 2
    /\ status # "ONGOING"
    /\ history # <<>> /\ Top(history).action = "pass"

\* C35: in every reachable Gomoku state whose status is Ongoing the board
\* has an empty cell and no stone anywhere on it stands in a run of 5 or more
\* stones of its colour on a row, a column or a diagonal.
C35_GomokuOngoingBoard ==
    (variant = "gomoku" /\ status = "ONGOING") =>
        /\ \E p \in DOMAIN grid : grid[p] = EMPTY
        /\ \A p \in DOMAIN grid :
              grid[p] # EMPTY => ~RunThrough(grid, p, grid[p])

\* An undo has just reopened a Gomoku game: the status is Ongoing again and
\* the player to move has an empty cell that completes a run of five.
C35_Witness ==
    /\ variant = "gomoku" /\ steps >= 2
    /\ lastOp = [op |-> "undo", err |-> "ok"]
    /\ status = "ONGOING"
    /\ \E p \in DOMAIN grid :
          /\ grid[p] = EMPTY
          /\ RunThrough(Placed(Self, p), p, current_player.color)

\* C36: Gomoku stone parity: in every reachable Gomoku state, whatever
\* accepted and refused moves, resigns and undos led to it, the black stones
\* are as many as the white stones or one more, and Black is to move exactly
\* when the two counts are equal.
C36_GomokuStoneParity ==
    variant = "gomoku" =>
        LET diff == Cardinality(Stones(grid, "black"))
                      - Cardinality(Stones(grid, "white"))
        IN /\ diff \in {0, 1}
           /\ current_player.color = "black" <=> diff = 0
           /\ current_player.color = "white" <=> diff = 1

\* A Gomoku move onto an occupied cell has just been refused and has left its
\* entry on the history, with one more black stone than white ones on the
\* board.
C36_Witness ==
    /\ variant = "gomoku" /\ steps >= 3
    /\ lastOp = [op |-> "move", err |-> "AlreadyOccupied"]
    /\ Cardinality(Stones(grid, "black"))
          = Cardinality(Stones(grid, "white")) + 1
    /\ status = "ONGOING"
    /\ Len(history) >= 2
    /\ Top(history).prev_value # EMPTY

\* C37: history shape, in both variants: every move or pass entry records
\* the previous status Ongoing, no move or pass entry lies above a resign
\* entry (the log is a run of move and pass entries followed by a run of
\* resign entries), and so undoing a move or a pass always leaves the status
\* Ongoing.
C37_HistoryShape ==
    /\ \A i \in 1..Len(history) :
          history[i].action \in {"move", "pass"} =>
              history[i].previous_status = "ONGOING"
    /\ \A i, j \in 1..Len(history) :
          (i < j /\ history[i].action = "resign") =>
              history[j].action = "resign"
    /\ (history # <<>> /\ Top(history).action \in {"move", "pass"}) =>
          LET t == Call(Self, U)
          IN t.err = "ok" /\ t.g.status = "ONGOING"

\* A history in which a move and a pass lie below two resigns, the second
\* made on the game the first had ended.
C37_Witness ==
    /\ steps > 0
    /\ Len(history) >= 4
    /\ Top(history).action = "resign"
    /\ history[Len(history) - 1].action = "resign"
    /\ Top(history).previous_status # "ONGOING"
    /\ \E i, j \in 1..Len(history) :
          history[i].action = "move" /\ history[j].action = "pass"

====
